---- MODULE Spec2Model ----
(***************************************************************************)
(* Grid placement core of pixi-layout-engine (src/src/layouts.ts and the   *)
(* later revision of the same file that carries the budgeted perimeter     *)
(* grid).                                                                  *)
(*                                                                         *)
(* Three specifications share one tuple of variables:                      *)
(*   SpecSpanning   the occupancy-grid placer _layoutSquareWithSpanning,   *)
(*                  one step per scanned row;                              *)
(*   Spec           one call of the router _layoutSquare on a container;   *)
(*   SpecPerimeter  one call of _layoutPerimeterGrid (budgeting revision).  *)
(*                                                                         *)
(* Coordinates are kept in HALF units (x2 = 2 * x), because every centre   *)
(* is cellX + width / 2; all lengths of the model are integers.            *)
(***************************************************************************)
EXTENDS Integers, Sequences, FiniteSets, TLC

VARIABLES
    components,     \* the items: spans, position (half units), visible, scale.x
    options,        \* the options record of the call in progress / last call
    slots,          \* slot given to each item by the last call (NoSlot: none)
    bounds,         \* the bounding box the last call returned (half units)
    occupancyGrid,  \* spanning placer: per allocated row, the truthy columns
    placedItems,    \* spanning placer: the PlacedItem records pushed so far
    maxRowUsed,     \* spanning placer
    searchRow,      \* spanning placer: row being scanned for the current child
    childIdx,       \* spanning placer: index (1-based) of the current child
    pc,             \* position inside the call in progress
    calls,          \* number of _layoutSquare calls made on the container
    budgets,        \* perimeter grid: per-edge budgets
    caps            \* perimeter grid: per-edge capacities

vars == << components, options, slots, bounds, occupancyGrid, placedItems,
           maxRowUsed, searchRow, childIdx, pc, calls, budgets, caps >>

spanVars == << occupancyGrid, placedItems, maxRowUsed, searchRow, childIdx >>
perimVars == << budgets, caps >>
idleVars == << calls, budgets, caps >>

----------------------------------------------------------------------------
(* Bounds of the model *)

MaxItems == 3       \* longest item list given to the spanning placer
MaxN == 5           \* most items in the container of the square grid
MaxSpan == 2        \* largest rowSpan / colSpan drawn for an item
MaxColumns == 3     \* largest `columns` option
MaxRows == 3        \* largest `rows` option of the perimeter grid
ItemWidth == 2      \* child.width of every item
ItemHeight == 2     \* child.height of every item
MaxOffset == 1      \* largest positive `cornerOffset` option

----------------------------------------------------------------------------
(* Arithmetic helpers (Math.min, Math.max, Math.ceil of a quotient) *)

Min(a, b) == IF a < b THEN a ELSE b
Max(a, b) == IF a > b THEN a ELSE b
Abs(a) == IF a < 0 THEN -a ELSE a

\* Math.ceil(a / b) for a >= 0, b > 0
CeilDiv(a, b) == (a + b - 1) \div b

\* Math.floor(a / b) for a >= 0 and any non-zero b (JS number division)
JsFloorDiv(a, b) == IF b > 0 THEN a \div b ELSE -CeilDiv(a, -b)

\* Math.ceil(a / b) for a >= 0 and any non-zero b
JsCeilDiv(a, b) == IF b > 0 THEN CeilDiv(a, b) ELSE -(a \div (-b))

\* a % b of JS for a >= 0 and non-zero b: the sign follows the dividend
JsRem(a, b) == IF b > 0 THEN a % b ELSE a % (-b)

NoSlot == [r |-> -1, c |-> -1, placed |-> FALSE]
Slot(r, c) == [r |-> r, c |-> c, placed |-> TRUE]

ZeroBounds == [minX |-> 0, minY |-> 0, maxX |-> 0, maxY |-> 0]

\* A freshly constructed item: position (0, 0), visible, unflipped.
NewItem(rs, cs, hasVis, hasScale, group) ==
    [rowSpan |-> rs, colSpan |-> cs, x |-> 0, y |-> 0, group |-> group,
     hasVisible |-> hasVis, visible |-> TRUE,
     hasScale |-> hasScale, scaleX |-> 1]

----------------------------------------------------------------------------
(* _calculateGridCellSize: gaps default to 0, sizes are the largest item's *)

DefaultGap == 0

calculateGridCellSize(comps) ==
    [maxChildWidth |-> ItemWidth, maxChildHeight |-> ItemHeight,
     cellWidth |-> ItemWidth + DefaultGap, cellHeight |-> ItemHeight + DefaultGap,
     columnGap |-> DefaultGap, rowGap |-> DefaultGap]

----------------------------------------------------------------------------
(* _layoutSquareWithSpanning, one step per scanned row *)

\* const colSpan = Math.min(child.colSpan || 1, columns)
ClampedColSpan(child, cols) == Min(child.colSpan, cols)

\* A plausible slip: the growth loop tests <= searchRow + rowSpan and
\* allocates one row more than the block needs.
RECURSIVE GrowGridOneMore(_, _)
GrowGridOneMore(grid, need) ==
    IF Len(grid) >= need + 1 THEN grid ELSE GrowGridOneMore(Append(grid, {}), need)

\* while (occupancyGrid.length <= searchRow + rowSpan - 1) push(Array(columns).fill(false))
RECURSIVE GrowGrid(_, _)
GrowGrid(grid, need) ==
    IF Len(grid) >= need THEN grid ELSE GrowGrid(Append(grid, {}), need)

\* A plausible slip: snake rows are scanned left to right like the others.
ScanColumnsNeverMirrored(isSnakeRow, colSpan, cols) ==
    [k \in 1..cols |-> k - 1]

\* the order in which the for loop visits candidate start columns
ScanColumns(isSnakeRow, colSpan, cols) ==
    IF isSnakeRow
    THEN [k \in 1..(cols - colSpan + 1) |-> cols - colSpan - (k - 1)]
    ELSE [k \in 1..cols |-> k - 1]

\* A plausible slip: only the block's first cell is tested.
CanFitFirstCellOnly(grid, row, c, rowSpan, colSpan) ==
    c \notin grid[row + 1]

\* canFit: no cell of the block is truthy; a cell outside the row array reads
\* undefined, which is falsy (optional chaining on line 1095).
CanFit(grid, row, c, rowSpan, colSpan) ==
    \A ro \in 0..(rowSpan - 1) : \A co \in 0..(colSpan - 1) :
        (c + co) \notin grid[row + ro + 1]

\* occupancyGrid[searchRow + r_offset][c + c_offset] = true
MarkBlock(grid, row, c, rowSpan, colSpan) ==
    [k \in 1..Len(grid) |->
        IF k - 1 >= row /\ k - 1 < row + rowSpan
        THEN grid[k] \cup (c..(c + colSpan - 1))
        ELSE grid[k]]

\* indices into ScanColumns whose column fits
FittingScanIdx(grid, row, rowSpan, colSpan, isSnakeRow, cols) ==
    LET scan == ScanColumns(isSnakeRow, colSpan, cols)
    IN  { k \in 1..Len(scan) : CanFit(grid, row, scan[k], rowSpan, colSpan) }

SetMin(S) == CHOOSE m \in S : \A n \in S : m <= n

CurChild == components[childIdx]
CurColSpan == ClampedColSpan(CurChild, options.columns)
CurRowSpan == CurChild.rowSpan
CurIsSnakeRow == options.flowDirection = "snake" /\ searchRow % 2 # 0
CurGrown == GrowGrid(occupancyGrid, searchRow + CurRowSpan)
CurFitting == FittingScanIdx(CurGrown, searchRow, CurRowSpan, CurColSpan,
                             CurIsSnakeRow, options.columns)

\* the scan of one row finds a column: mark, record, go to the next child
SpanPlace ==
    /\ pc = "search"
    /\ CurFitting # {}
    /\ LET scan == ScanColumns(CurIsSnakeRow, CurColSpan, options.columns)
           c == scan[SetMin(CurFitting)]
       IN  /\ occupancyGrid' = MarkBlock(CurGrown, searchRow, c, CurRowSpan, CurColSpan)
           /\ placedItems' = Append(placedItems,
                  [row |-> searchRow, col |-> c,
                   rowSpan |-> CurRowSpan, colSpan |-> CurColSpan])
    /\ maxRowUsed' = Max(maxRowUsed, searchRow + CurRowSpan - 1)
    /\ searchRow' = 0
    /\ childIdx' = childIdx + 1
    /\ pc' = IF childIdx = Len(components) THEN "project" ELSE "search"
    /\ UNCHANGED << components, options, slots, bounds, idleVars >>

\* the scan of one row finds nothing: searchRow++
SpanNextRow ==
    /\ pc = "search"
    /\ CurFitting = {}
    /\ occupancyGrid' = CurGrown
    /\ searchRow' = searchRow + 1
    /\ UNCHANGED << components, options, slots, bounds, placedItems,
                    maxRowUsed, childIdx, pc, idleVars >>

\* const { cornerOffset = 0 } = options: the default when the key is absent
CornerOffset(o) == IF "cornerOffset" \in DOMAIN o THEN o.cornerOffset ELSE 0

\* the four independent corner tests of the projection loop: every corner the
\* block touches adds its own nudge to the centre
CornerNudge(item, totalRows, cols, off) ==
    LET isTop == item.row = 0
        isBottom == item.row + item.rowSpan = totalRows
        isLeft == item.col = 0
        isRight == item.col + item.colSpan = cols
        tl == IF isTop /\ isLeft THEN 1 ELSE 0
        tr == IF isTop /\ isRight THEN 1 ELSE 0
        bl == IF isBottom /\ isLeft THEN 1 ELSE 0
        br == IF isBottom /\ isRight THEN 1 ELSE 0
    IN  IF off = 0 THEN [dx |-> 0, dy |-> 0]
        ELSE [dx |-> off * (tr + br - tl - bl), dy |-> off * (bl + br - tl - tr)]

\* the second loop: project every placed item and return the grid rectangle
SpanProject ==
    /\ pc = "project"
    /\ LET m == calculateGridCellSize(components)
           totalRows == maxRowUsed + 1
           off == CornerOffset(options)
           nudge(i) == CornerNudge(placedItems[i], totalRows, options.columns, off)
       IN  /\ components' = [i \in 1..Len(components) |->
                  [components[i] EXCEPT
                      !.x = 2 * placedItems[i].col * m.cellWidth + ItemWidth
                            + 2 * nudge(i).dx,
                      !.y = 2 * placedItems[i].row * m.cellHeight + ItemHeight
                            + 2 * nudge(i).dy]]
           /\ slots' = [i \in 1..Len(components) |->
                  Slot(placedItems[i].row, placedItems[i].col)]
           /\ bounds' = LET grow == IF off > 0 THEN 2 * off ELSE 0
                        IN  [minX |-> -grow, minY |-> -grow,
                             maxX |-> 2 * (options.columns * m.cellWidth - m.columnGap) + grow,
                             maxY |-> 2 * (totalRows * m.cellHeight - m.rowGap) + grow]
    /\ pc' = "done"
    /\ UNCHANGED << options, spanVars, idleVars >>

SpanItemLists ==
    UNION { [1..n -> { NewItem(rs, cs, FALSE, FALSE, 0) :
                         rs \in 1..MaxSpan, cs \in 1..MaxSpan }] : n \in 1..MaxItems }

InitSpanning ==
    /\ components \in SpanItemLists
    /\ options \in [columns : 1..MaxColumns, flowDirection : {"default", "snake"}]
    /\ slots = [i \in 1..Len(components) |-> NoSlot]
    /\ bounds = ZeroBounds
    /\ occupancyGrid = << >>
    /\ placedItems = << >>
    /\ maxRowUsed = 0
    /\ searchRow = 0
    /\ childIdx = 1
    /\ pc = "search"
    /\ calls = 0
    /\ budgets = << >>
    /\ caps = << >>

NextSpanning == SpanPlace \/ SpanNextRow \/ SpanProject

SpecSpanning == InitSpanning /\ [][NextSpanning]_vars

\* the same call with a corner offset in the options
InitSpanningOffset ==
    /\ components \in SpanItemLists
    /\ options \in [columns : 1..MaxColumns, flowDirection : {"default", "snake"},
                    cornerOffset : 1..MaxOffset]
    /\ slots = [i \in 1..Len(components) |-> NoSlot]
    /\ bounds = ZeroBounds
    /\ occupancyGrid = << >>
    /\ placedItems = << >>
    /\ maxRowUsed = 0
    /\ searchRow = 0
    /\ childIdx = 1
    /\ pc = "search"
    /\ calls = 0
    /\ budgets = << >>
    /\ caps = << >>

SpecSpanningOffset == InitSpanningOffset /\ [][NextSpanning]_vars

\* The placer is one sequential loop: whenever a step is possible the
\* running call takes it.
SpecSpanningFair == SpecSpanning /\ WF_vars(NextSpanning)

----------------------------------------------------------------------------
(* Helpers shared by the traversal strategies of _layoutSquare *)

\* Math.ceil(components.length / columns)
TotalRows(N, cols) == JsCeilDiv(N, cols)

\* the cells of a totalRows x columns grid in the order of
\* for (r ...) for (c ...) push({r, c})
RowMajor(rows, cols) ==
    [k \in 1..(rows * cols) |-> Slot((k - 1) \div cols, (k - 1) % cols)]

\* positions[i] for item i, undefined (no placement) past the end
TakeSlots(positions, N) ==
    [i \in 1..N |-> IF i <= Len(positions) THEN positions[i] ELSE NoSlot]

\* the elements of the finite set S as the sequence sorted by the strict
\* total order Less (Array.prototype.sort with a comparator without ties)
SortedSeq(S, Less(_, _)) ==
    [k \in 1..Cardinality(S) |->
        CHOOSE p \in S : Cardinality({ q \in S : Less(q, p) }) = k - 1]

\* child.position.set(cellX + maxChildWidth / 2, cellY + maxChildHeight / 2)
\* for every item that got a slot; the others keep their position
SetPositions(comps, sl, m) ==
    [i \in 1..Len(comps) |->
        IF sl[i].placed
        THEN [comps[i] EXCEPT !.x = 2 * sl[i].c * m.cellWidth + m.maxChildWidth,
                              !.y = 2 * sl[i].r * m.cellHeight + m.maxChildHeight]
        ELSE comps[i]]

\* { minX: 0, minY: 0, maxX: gridWidth, maxY: totalHeight }
GridBounds(cols, rows, m) ==
    [minX |-> 0, minY |-> 0,
     maxX |-> 2 * (cols * m.cellWidth - m.columnGap),
     maxY |-> 2 * (rows * m.cellHeight - m.rowGap)]

\* A plausible slip: the reset loop restores scale.x only.
ResetCosmeticsScaleOnly(comps) ==
    [i \in 1..Len(comps) |->
        [comps[i] EXCEPT !.scaleX = IF comps[i].hasScale THEN 1 ELSE @]]

\* the loop at the head of _layoutSquare: scale.x = 1, visible = true
ResetCosmetics(comps) ==
    [i \in 1..Len(comps) |->
        [comps[i] EXCEPT !.scaleX = IF comps[i].hasScale THEN 1 ELSE @,
                         !.visible = IF comps[i].hasVisible THEN TRUE ELSE @]]

----------------------------------------------------------------------------
(* _layoutSquareSimple *)

\* flowDirection.includes(word) for the flow names of the simple grid
FlowWords(flow) ==
    CASE flow = "default"       -> {}
      [] flow = "snake"         -> {"snake"}
      [] flow = "column"        -> {"column"}
      [] flow = "column-snake"  -> {"column", "snake"}
      [] flow = "bottom-start"  -> {"bottom"}
      [] flow = "right-start"   -> {"right"}
      [] flow = "bottom-right"  -> {"bottom", "right"}
      [] OTHER                  -> {}

SimpleFlows == {"default", "snake", "column", "column-snake",
                "bottom-start", "right-start", "bottom-right"}

\* A plausible slip: row and column are exchanged in the row-flow branch.
SimpleBaseTransposed(i, N, cols, flow) ==
    [r |-> JsRem(i, cols), c |-> JsFloorDiv(i, cols)]

\* baseRow / baseCol of item i (0-based), lines 854-860
SimpleBase(i, N, cols, flow) ==
    IF "column" \in FlowWords(flow)
    THEN [r |-> JsRem(i, TotalRows(N, cols)), c |-> JsFloorDiv(i, TotalRows(N, cols))]
    ELSE [r |-> JsFloorDiv(i, cols), c |-> JsRem(i, cols)]

\* finalRow / finalCol of item i (0-based), lines 862-872
SimpleSlot(i, N, cols, flow, flowReverse) ==
    LET totalRows == TotalRows(N, cols)
        base == SimpleBase(i, N, cols, flow)
        isColumnFlow == "column" \in FlowWords(flow)
        isSnakeFlow == "snake" \in FlowWords(flow)
        startFromBottom == "bottom" \in FlowWords(flow)
        startFromRight == "right" \in FlowWords(flow)
        baseRow == IF isSnakeFlow /\ isColumnFlow /\ base.c % 2 # 0
                   THEN totalRows - 1 - base.r ELSE base.r
        baseCol == IF isSnakeFlow /\ ~isColumnFlow /\ base.r % 2 # 0
                   THEN cols - 1 - base.c ELSE base.c
        finalRow == IF startFromBottom THEN totalRows - 1 - baseRow
                    ELSE IF flowReverse /\ ~startFromRight
                         THEN totalRows - 1 - baseRow ELSE baseRow
        finalCol == IF startFromRight THEN cols - 1 - baseCol ELSE baseCol
    IN  Slot(finalRow, finalCol)

SimpleSlots(N, cols, flow, flowReverse) ==
    [i \in 1..N |-> SimpleSlot(i - 1, N, cols, flow, flowReverse)]

----------------------------------------------------------------------------
(* _layoutSquareBoustrophedon *)

BoustrophedonSlots(N, cols) ==
    [i \in 1..N |->
        LET row == (i - 1) \div cols
            baseCol == (i - 1) % cols
        IN  Slot(row, IF row % 2 # 0 THEN cols - 1 - baseCol ELSE baseCol)]

----------------------------------------------------------------------------
(* _layoutSquareGravityFill *)

GravityFlows == {"gravity-fill-center", "gravity-fill-top-left",
                 "gravity-fill-top-right", "gravity-fill-bottom-left",
                 "gravity-fill-bottom-right", "gravity-fill-top",
                 "gravity-fill-bottom", "gravity-fill-left",
                 "gravity-fill-right"}

\* A plausible slip: the centre is rounded up, Math.ceil in place of
\* Math.floor.
GravityPointCentreCeil(flow, rows, cols) ==
    CASE flow = "gravity-fill-top-left"     -> [r |-> 0, c |-> 0]
      [] flow = "gravity-fill-top-right"    -> [r |-> 0, c |-> cols - 1]
      [] flow = "gravity-fill-bottom-left"  -> [r |-> rows - 1, c |-> 0]
      [] flow = "gravity-fill-bottom-right" -> [r |-> rows - 1, c |-> cols - 1]
      [] flow = "gravity-fill-top"          -> [r |-> 0, c |-> (cols + 1) \div 2]
      [] flow = "gravity-fill-bottom"       -> [r |-> rows - 1, c |-> (cols + 1) \div 2]
      [] OTHER                              -> [r |-> (rows + 1) \div 2, c |-> (cols + 1) \div 2]

\* the endsWith chain of lines 430-436; a suffix without a branch of its own
\* keeps the initial centre
GravityPoint(flow, rows, cols) ==
    CASE flow = "gravity-fill-top-left"     -> [r |-> 0, c |-> 0]
      [] flow = "gravity-fill-top-right"    -> [r |-> 0, c |-> cols - 1]
      [] flow = "gravity-fill-bottom-left"  -> [r |-> rows - 1, c |-> 0]
      [] flow = "gravity-fill-bottom-right" -> [r |-> rows - 1, c |-> cols - 1]
      [] flow = "gravity-fill-top"          -> [r |-> 0, c |-> cols \div 2]
      [] flow = "gravity-fill-bottom"       -> [r |-> rows - 1, c |-> cols \div 2]
      [] OTHER                              -> [r |-> rows \div 2, c |-> cols \div 2]

GravitySlots(N, cols, flow) ==
    LET rows == TotalRows(N, cols)
        g == GravityPoint(flow, rows, cols)
        Dist(p) == Abs(p.r - g.r) + Abs(p.c - g.c)
        Less(a, b) == \/ Dist(a) < Dist(b)
                      \/ Dist(a) = Dist(b) /\ a.r < b.r
                      \/ Dist(a) = Dist(b) /\ a.r = b.r /\ a.c < b.c
        all == RowMajor(rows, cols)
        positions == SortedSeq({ all[k] : k \in 1..Len(all) }, Less)
    IN  TakeSlots(positions, N)

----------------------------------------------------------------------------
(* _layoutSquareSymmetricOutward *)

RowCells(r, cols) == [k \in 1..cols |-> Slot(r, k - 1)]

RECURSIVE SymmetricRows(_, _, _, _)
SymmetricRows(offset, centerRow, rows, cols) ==
    IF offset > Max(centerRow, rows - 1 - centerRow) THEN << >>
    ELSE (IF centerRow + offset < rows
          THEN RowCells(centerRow + offset, cols) ELSE << >>)
         \o (IF centerRow - offset >= 0
             THEN RowCells(centerRow - offset, cols) ELSE << >>)
         \o SymmetricRows(offset + 1, centerRow, rows, cols)

SymmetricOutwardSlots(N, cols) ==
    LET rows == TotalRows(N, cols)
        centerRow == rows \div 2
        positions == (IF centerRow < rows THEN RowCells(centerRow, cols) ELSE << >>)
                     \o SymmetricRows(1, centerRow, rows, cols)
    IN  TakeSlots(positions, N)

----------------------------------------------------------------------------
(* _layoutSquareInterlaced *)

IsEvenCell(p) == (p.r + p.c) % 2 = 0
IsOddCell(p) == (p.r + p.c) % 2 # 0

InterlacedSlots(N, cols) ==
    LET all == RowMajor(TotalRows(N, cols), cols)
    IN  TakeSlots(SelectSeq(all, IsEvenCell) \o SelectSeq(all, IsOddCell), N)

----------------------------------------------------------------------------
(* _layoutSquareDiagonalFill *)

DiagonalFillSlots(N, cols) ==
    LET rows == TotalRows(N, cols)
        max_sum == rows + cols - 2
        \* (sum, r) in loop order; c = sum - r may fall outside the grid
        cand == [k \in 1..((max_sum + 1) * rows) |->
                    Slot((k - 1) % rows, ((k - 1) \div rows) - ((k - 1) % rows))]
        InCols(p) == p.c >= 0 /\ p.c < cols
    IN  TakeSlots(SelectSeq(cand, InCols), N)

----------------------------------------------------------------------------
(* _layoutSquareBlockFill *)

DefaultBlockWidth == 2
DefaultBlockHeight == 2

BlockFillSlots(N, cols) ==
    LET rows == TotalRows(N, cols)
        bw == DefaultBlockWidth
        bh == DefaultBlockHeight
        numBlockRows == CeilDiv(rows, bh)
        numBlockCols == CeilDiv(cols, bw)
        \* (br, bc, rInBlock, cInBlock) in loop order
        cand == [k \in 1..(numBlockRows * numBlockCols * bh * bw) |->
                    LET cIn == (k - 1) % bw
                        rIn == ((k - 1) \div bw) % bh
                        bc == ((k - 1) \div (bw * bh)) % numBlockCols
                        br == (k - 1) \div (bw * bh * numBlockCols)
                    IN  Slot(br * bh + rIn, bc * bw + cIn)]
        InGrid(p) == p.r < rows /\ p.c < cols
    IN  TakeSlots(SelectSeq(cand, InGrid), N)

----------------------------------------------------------------------------
(* _layoutSquareBraidFlow *)

DefaultBraidRows == 2

\* A plausible slip: the `finalRow < totalRows` test is left out.
BraidFlowSlotsUnguarded(N, cols) ==
    LET braidRows == DefaultBraidRows
        itemsPerBraidBlock == braidRows * cols
    IN  [i \in 1..N |->
            LET blockIndex == (i - 1) \div itemsPerBraidBlock
                indexInBlock == (i - 1) % itemsPerBraidBlock
            IN  Slot((blockIndex * braidRows) + (indexInBlock % braidRows),
                     indexInBlock \div braidRows)]

BraidFlowSlots(N, cols) ==
    LET rows == TotalRows(N, cols)
        braidRows == DefaultBraidRows
        itemsPerBraidBlock == braidRows * cols
    IN  [i \in 1..N |->
            LET blockIndex == (i - 1) \div itemsPerBraidBlock
                indexInBlock == (i - 1) % itemsPerBraidBlock
                finalRow == (blockIndex * braidRows) + (indexInBlock % braidRows)
                finalCol == indexInBlock \div braidRows
            IN  IF finalRow < rows THEN Slot(finalRow, finalCol) ELSE NoSlot]

----------------------------------------------------------------------------
(* _layoutSquareClusteredFill *)

\* Math.round(a / b) for a >= 0, b > 0 (halves round up)
RoundDiv(a, b) == (2 * a + b) \div (2 * b)

\* the members of group g, as 1-based item indices in input order
GroupMembers(comps, g) ==
    SelectSeq([i \in 1..Len(comps) |-> i], LAMBDA i : comps[i].group = g)

\* Array.from(groups.entries()).sort((a, b) => b[1].length - a[1].length):
\* larger groups first, equal sizes in order of first appearance (stable sort)
SortedGroups(comps) ==
    LET names == { comps[i].group : i \in 1..Len(comps) }
        Size(g) == Len(GroupMembers(comps, g))
        First(g) == GroupMembers(comps, g)[1]
        Less(a, b) == \/ Size(a) > Size(b)
                      \/ Size(a) = Size(b) /\ First(a) < First(b)
    IN  SortedSeq(names, Less)

\* the column band of every group, in sortedGroups order:
\* zone.x = currentX, zone.width = min(zoneWidthInCells, columns - currentX)
RECURSIVE ClusterZones(_, _, _, _, _)
ClusterZones(comps, groups, k, currentX, cols) ==
    IF k > Len(groups) THEN << >>
    ELSE LET n == Len(GroupMembers(comps, groups[k]))
             zoneWidthInCells == Max(1, RoundDiv(cols * n, Len(comps)))
             width == Min(zoneWidthInCells, cols - currentX)
         IN  << [group |-> groups[k], x |-> currentX, width |-> width] >>
             \o ClusterZones(comps, groups, k + 1, currentX + width, cols)

ClusteredFillSlots(comps, cols) ==
    LET rows == TotalRows(Len(comps), cols)
        zones == ClusterZones(comps, SortedGroups(comps), 1, 0, cols)
        ZoneOf(g) == zones[CHOOSE k \in 1..Len(zones) : zones[k].group = g]
        \* 0-based index of item i inside its group
        IndexIn(i) == Cardinality({ j \in 1..(i - 1) : comps[j].group = comps[i].group })
    IN  [i \in 1..Len(comps) |->
            LET zone == ZoneOf(comps[i].group)
                gi == IndexIn(i)
            IN  IF gi >= zone.width * rows THEN NoSlot
                ELSE Slot(gi \div zone.width, zone.x + (gi % zone.width))]

----------------------------------------------------------------------------
(* _layoutSquareRandomWalk: every sequence the random source can produce *)

\* A plausible slip: the neighbour filter forgets the occupancy test.
NeighborsIgnoringOccupancy(p, occ, rows, cols) ==
    { n \in { Slot(p.r - 1, p.c), Slot(p.r + 1, p.c),
              Slot(p.r, p.c - 1), Slot(p.r, p.c + 1) } :
        n.r >= 0 /\ n.r < rows /\ n.c >= 0 /\ n.c < cols }

Neighbors(p, occ, rows, cols) ==
    { n \in { Slot(p.r - 1, p.c), Slot(p.r + 1, p.c),
              Slot(p.r, p.c - 1), Slot(p.r, p.c + 1) } :
        /\ n.r >= 0 /\ n.r < rows /\ n.c >= 0 /\ n.c < cols
        /\ n \notin occ }

\* the loop over the children from child k on; cur = NoSlot stands for
\* currentPos = null (break)
RECURSIVE RandomWalkFrom(_, _, _, _, _, _, _)
RandomWalkFrom(k, cur, occ, unocc, N, rows, cols) ==
    IF k > N THEN { << >> }
    ELSE IF ~cur.placed THEN { [i \in 1..(N - k + 1) |-> NoSlot] }
    ELSE LET occ2 == occ \cup {cur}
             nb == Neighbors(cur, occ2, rows, cols)
             un2 == unocc \ {cur}
             nexts == IF nb # {} THEN nb
                      ELSE IF un2 # {} THEN un2
                      ELSE {NoSlot}
         IN  UNION { { << cur >> \o rest :
                        rest \in RandomWalkFrom(k + 1, nx, occ2, un2 \ {nx},
                                                N, rows, cols) } : nx \in nexts }

RandomWalkOutcomes(N, cols) ==
    LET rows == TotalRows(N, cols)
        all == RowMajor(rows, cols)
        cells == { all[k] : k \in 1..Len(all) }
    IN  UNION { RandomWalkFrom(1, start, {}, cells \ {start}, N, rows, cols) :
                  start \in cells }

----------------------------------------------------------------------------
(* _layoutSquareHilbertCurve and _layoutSquareZOrder *)

\* Math.pow(2, Math.ceil(Math.log2(m))): the smallest power of two >= m
RECURSIVE PowerOfTwoAtLeast(_, _)
PowerOfTwoAtLeast(m, p) == IF p >= m THEN p ELSE PowerOfTwoAtLeast(m, 2 * p)

EnclosingSquare(N, cols) == PowerOfTwoAtLeast(Max(cols, TotalRows(N, cols)), 1)

\* A plausible slip: t is halved, not quartered, between two scales.
RECURSIVE D2xyHalvesT(_, _, _, _, _)
D2xyHalvesT(s, t, x, y, n) ==
    IF s >= n THEN Slot(x, y)
    ELSE LET rx == (t \div 2) % 2
             ry == (t + rx) % 2
             fx == IF ry = 0 /\ rx = 1 THEN s - 1 - x ELSE x
             fy == IF ry = 0 /\ rx = 1 THEN s - 1 - y ELSE y
             sx == IF ry = 0 THEN fy ELSE fx
             sy == IF ry = 0 THEN fx ELSE fy
         IN  D2xyHalvesT(2 * s, t \div 2, sx + s * rx, sy + s * ry, n)

\* the loop of d2xy from scale s on. 1 & (t / 2) and 1 & (t ^ rx) truncate
\* their operand to an integer first, so the fractional part that t /= 4
\* leaves never reaches a bit: t is carried as floor(d / 4^k).
RECURSIVE D2xyLoop(_, _, _, _, _)
D2xyLoop(s, t, x, y, n) ==
    IF s >= n THEN Slot(x, y)
    ELSE LET rx == (t \div 2) % 2
             ry == (t + rx) % 2
             fx == IF ry = 0 /\ rx = 1 THEN s - 1 - x ELSE x
             fy == IF ry = 0 /\ rx = 1 THEN s - 1 - y ELSE y
             sx == IF ry = 0 THEN fy ELSE fx
             sy == IF ry = 0 THEN fx ELSE fy
         IN  D2xyLoop(2 * s, t \div 4, sx + s * rx, sy + s * ry, n)

d2xy(d, n) == D2xyLoop(1, d, 0, 0, n)

allPositionsOnCurve(n) == [k \in 1..(n * n) |-> d2xy(k - 1, n)]

HilbertSlots(N, cols) ==
    LET rows == TotalRows(N, cols)
        InGrid(p) == p.r < rows /\ p.c < cols
    IN  TakeSlots(SelectSeq(allPositionsOnCurve(EnclosingSquare(N, cols)), InGrid), N)

\* A plausible slip: the bottom-left quadrant is visited before the top-right.
RECURSIVE ZGenerateColumnFirst(_, _, _, _, _, _, _)
ZGenerateColumnFirst(positions, x, y, size, N, rows, cols) ==
    IF Len(positions) >= N THEN positions
    ELSE IF size = 1
         THEN (IF y < rows /\ x < cols THEN Append(positions, Slot(y, x)) ELSE positions)
         ELSE LET s == size \div 2
                  p1 == ZGenerateColumnFirst(positions, x, y, s, N, rows, cols)
                  p2 == ZGenerateColumnFirst(p1, x, y + s, s, N, rows, cols)
                  p3 == ZGenerateColumnFirst(p2, x + s, y, s, N, rows, cols)
              IN  ZGenerateColumnFirst(p3, x + s, y + s, s, N, rows, cols)

\* generate(x, y, size): returns `positions` as the call leaves it
RECURSIVE ZGenerate(_, _, _, _, _, _, _)
ZGenerate(positions, x, y, size, N, rows, cols) ==
    IF Len(positions) >= N THEN positions
    ELSE IF size = 1
         THEN (IF y < rows /\ x < cols THEN Append(positions, Slot(y, x)) ELSE positions)
         ELSE LET s == size \div 2
                  p1 == ZGenerate(positions, x, y, s, N, rows, cols)
                  p2 == ZGenerate(p1, x + s, y, s, N, rows, cols)
                  p3 == ZGenerate(p2, x, y + s, s, N, rows, cols)
              IN  ZGenerate(p3, x + s, y + s, s, N, rows, cols)

ZOrderPositions(N, cols) ==
    ZGenerate(<< >>, 0, 0, EnclosingSquare(N, cols), N, TotalRows(N, cols), cols)

ZOrderSlots(N, cols) == TakeSlots(ZOrderPositions(N, cols), N)

----------------------------------------------------------------------------
(* _layoutSquarePerimeterFirst *)

\* [from, from + 1, ..., to] or, descending, [from, from - 1, ..., to]
Ascending(from, to) == [k \in 1..Max(0, to - from + 1) |-> from + k - 1]
Descending(from, to) == [k \in 1..Max(0, from - to + 1) |-> from - (k - 1)]

\* self.findIndex(p => same cell) === index: keep first occurrences only
RECURSIVE Unique(_)
Unique(seq) ==
    IF seq = << >> THEN << >>
    ELSE LET init == Unique(SubSeq(seq, 1, Len(seq) - 1))
             last == seq[Len(seq)]
         IN  IF \E k \in 1..(Len(seq) - 1) : seq[k] = last
             THEN init ELSE Append(init, last)

PerimeterPositions(rows, cols) ==
    IF rows > 0 /\ cols > 0
    THEN [k \in 1..cols |-> Slot(0, k - 1)]
         \o [k \in 1..(rows - 1) |-> Slot(k, cols - 1)]
         \o (IF rows > 1
             THEN [k \in 1..Len(Descending(cols - 2, 0)) |->
                      Slot(rows - 1, Descending(cols - 2, 0)[k])]
             ELSE << >>)
         \o (IF cols > 1
             THEN [k \in 1..Len(Descending(rows - 2, 1)) |->
                      Slot(Descending(rows - 2, 1)[k], 0)]
             ELSE << >>)
    ELSE << >>

PerimeterFirstSlots(N, cols) ==
    LET rows == TotalRows(N, cols)
        uniquePerimeterPos == Unique(PerimeterPositions(rows, cols))
        perimeterCount == Min(Len(uniquePerimeterPos), N)
        interiorColumns == cols - 2
    IN  [i \in 1..N |->
            IF i <= perimeterCount THEN uniquePerimeterPos[i]
            ELSE IF cols > 2 /\ rows > 2
                 THEN Slot(((i - perimeterCount - 1) \div interiorColumns) + 1,
                           ((i - perimeterCount - 1) % interiorColumns) + 1)
                 ELSE NoSlot]

----------------------------------------------------------------------------
(* _layoutSquareSpiral *)

\* r += dr; c += dc; stepsInSegment++; turn when the segment is walked
SpiralStep(st) ==
    LET steps == st.stepsInSegment + 1
        turn == steps >= st.segmentLength
        turnCounter == IF turn THEN st.turnCounter + 1 ELSE st.turnCounter
    IN  [r |-> st.r + st.dr, c |-> st.c + st.dc,
         dr |-> IF turn THEN -st.dc ELSE st.dr,
         dc |-> IF turn THEN st.dr ELSE st.dc,
         stepsInSegment |-> IF turn THEN 0 ELSE steps,
         turnCounter |-> turnCounter,
         segmentLength |-> IF turn /\ turnCounter % 2 = 0
                           THEN st.segmentLength + 1 ELSE st.segmentLength]

\* the inner while: walk on until an in-bounds, unoccupied cell is reached
RECURSIVE SpiralSeek(_, _, _, _)
SpiralSeek(st, occ, rows, cols) ==
    IF st.r < 0 \/ st.r >= rows \/ st.c < 0 \/ st.c >= cols
       \/ << st.r, st.c >> \in occ
    THEN SpiralSeek(SpiralStep(st), occ, rows, cols)
    ELSE st

RECURSIVE SpiralWalk(_, _, _, _, _, _)
SpiralWalk(i, st, occ, N, rows, cols) ==
    IF i >= N THEN << >>
    ELSE LET at == SpiralSeek(st, occ, rows, cols)
         IN  << Slot(at.r, at.c) >>
             \o SpiralWalk(i + 1, SpiralStep(at), occ \cup {<< at.r, at.c >>},
                           N, rows, cols)

Reverse(seq) == [k \in 1..Len(seq) |-> seq[Len(seq) + 1 - k]]

SpiralSlots(N, cols, flow) ==
    LET rows == TotalRows(N, cols)
        start == [r |-> rows \div 2, c |-> cols \div 2, dr |-> 0, dc |-> 1,
                  segmentLength |-> 1, stepsInSegment |-> 0, turnCounter |-> 0]
        positions == SpiralWalk(0, start, {}, N, rows, cols)
    IN  TakeSlots(IF flow = "spiral-in" THEN Reverse(positions) ELSE positions, N)

----------------------------------------------------------------------------
(* _layoutSquareCornerConverge *)

\* A plausible slip: the legs keep the corner they end on.
PopKeepingLast(seq) == seq

\* Array.prototype.pop: drop the last element, if any
Pop(seq) == IF seq = << >> THEN << >> ELSE SubSeq(seq, 1, Len(seq) - 1)

\* for i < maxPathLength, for j < 4: push paths[j][i] when it exists
Interleave(paths) ==
    LET maxPathLength == Max(Max(Len(paths[1]), Len(paths[2])),
                             Max(Len(paths[3]), Len(paths[4])))
        cand == [k \in 1..(maxPathLength * 4) |->
                    [i |-> ((k - 1) \div 4) + 1, j |-> ((k - 1) % 4) + 1]]
        Exists(e) == e.i <= Len(paths[e.j])
        kept == SelectSeq(cand, Exists)
    IN  [k \in 1..Len(kept) |-> paths[kept[k].j][kept[k].i]]

\* the four open legs of the shell minR..maxR x minC..maxC, interleaved
ShellPositions(minR, maxR, minC, maxC) ==
    LET pathTL == [k \in 1..(maxC - minC + 1) |-> Slot(minR, minC + k - 1)]
        pathBR == [k \in 1..(maxC - minC + 1) |-> Slot(maxR, maxC - (k - 1))]
        pathTR == [k \in 1..(maxR - minR + 1) |-> Slot(minR + k - 1, maxC)]
        pathBL == [k \in 1..(maxR - minR + 1) |-> Slot(maxR - (k - 1), minC)]
    IN  Interleave(<< Pop(pathTL), Pop(pathTR), Pop(pathBR), Pop(pathBL) >>)

\* the while loop: shells from the outside in, until enough positions exist
\* or the ring degenerates
RECURSIVE ConvergeShells(_, _, _, _, _, _)
ConvergeShells(finalPositions, minR, maxR, minC, maxC, N) ==
    IF Len(finalPositions) < N /\ minR <= maxR /\ minC <= maxC
    THEN ConvergeShells(finalPositions \o ShellPositions(minR, maxR, minC, maxC),
                        minR + 1, maxR - 1, minC + 1, maxC - 1, N)
    ELSE finalPositions

CornerConvergePositions(N, cols) ==
    ConvergeShells(<< >>, 0, TotalRows(N, cols) - 1, 0, cols - 1, N)

CornerConvergeSlots(N, cols) == TakeSlots(CornerConvergePositions(N, cols), N)

----------------------------------------------------------------------------
(* _layoutSquareDiamondFill *)

\* Math.floor / Math.ceil of the quotient n / d, d > 0, n of either sign
FloorQ(n, d) == n \div d
CeilQ(n, d) == -((-n) \div d)

\* startCol / endCol of row r. With D = totalRows - 1 (centerY = D / 2):
\*   verticalProgress = |2r - D| / D           (0 when centerY = 0)
\*   diamondWidth     = max(1, columns * (1 - verticalProgress)) = W / D
\*   startCol = ceil(centerX - diamondWidth / 2), endCol = floor(centerX + ...)
\* all kept as exact quotients over 2 * D.
DiamondRow(r, rows, cols) ==
    LET D == IF rows - 1 > 0 THEN rows - 1 ELSE 1
        A == IF rows - 1 > 0 THEN cols * (D - Abs(2 * r - D)) ELSE cols
        W == Max(D, A)
    IN  [startCol |-> CeilQ((cols - 1) * D - W, 2 * D),
         endCol |-> FloorQ((cols - 1) * D + W, 2 * D)]

\* the inner loop of row r: c = startCol..endCol, kept when 0 <= c < columns
DiamondRowCells(r, rows, cols) ==
    LET d == DiamondRow(r, rows, cols)
        InCols(p) == p.c >= 0 /\ p.c < cols
    IN  SelectSeq([k \in 1..Max(0, d.endCol - d.startCol + 1) |->
                      Slot(r, d.startCol + k - 1)], InCols)

\* validPositions: the rows' cells, rows from 0 to totalRows - 1
RECURSIVE DiamondRowsFrom(_, _, _)
DiamondRowsFrom(r, rows, cols) ==
    IF r >= rows THEN << >>
    ELSE DiamondRowCells(r, rows, cols) \o DiamondRowsFrom(r + 1, rows, cols)

validPositions(N, cols) == DiamondRowsFrom(0, TotalRows(N, cols), cols)

DiamondFillSlots(N, cols) == TakeSlots(validPositions(N, cols), N)

\* A plausible slip: the else branch is missing, nothing is hidden.
DiamondHideNothing(comps, sl) == comps

\* the else branch: items past validPositions are hidden when they expose
\* a `visible` field
DiamondHide(comps, sl) ==
    [i \in 1..Len(comps) |->
        IF ~sl[i].placed /\ comps[i].hasVisible
        THEN [comps[i] EXCEPT !.visible = FALSE] ELSE comps[i]]

----------------------------------------------------------------------------
(* _layoutSquare: one action per strategy the router dispatches to.  Every  *)
(* action is the whole call: the reset loop of the router, the strategy,    *)
(* the position writes and the returned bounding box.                       *)

NumItems == Len(components)
Metrics == calculateGridCellSize(components)
\* a behaviour is one call on a container drawn by Init
Idle == pc = "idle"

\* `columns` values drawn for a call
Columns == 1..MaxColumns

\* The simple grid computes every index in closed form, so its arithmetic is
\* also defined for a negative `columns`; columns = 0 divides by zero (NaN and
\* Infinity coordinates) and is left out of the integer model.
SimpleColumns == {-1} \cup Columns

SquareOptions(cols, flow, rev) ==
    [columns |-> cols, flowDirection |-> flow, flowReverse |-> rev]

\* the effect shared by all strategies
Returns(opts, sl, comps) ==
    /\ Idle
    /\ options' = opts
    /\ slots' = sl
    /\ components' = comps
    /\ bounds' = GridBounds(opts.columns, TotalRows(NumItems, opts.columns), Metrics)
    /\ pc' = "returned"
    /\ calls' = calls + 1
    /\ UNCHANGED << spanVars, perimVars >>

Placed(sl) == SetPositions(ResetCosmetics(components), sl, Metrics)

LayoutSimple ==
    \E cols \in SimpleColumns, flow \in SimpleFlows, rev \in BOOLEAN :
        LET sl == SimpleSlots(NumItems, cols, flow, rev)
        IN  Returns(SquareOptions(cols, flow, rev), sl, Placed(sl))

LayoutGravityFill ==
    \E cols \in Columns, flow \in GravityFlows :
        LET sl == GravitySlots(NumItems, cols, flow)
        IN  Returns(SquareOptions(cols, flow, FALSE), sl, Placed(sl))

LayoutSymmetricOutward ==
    \E cols \in Columns :
        LET sl == SymmetricOutwardSlots(NumItems, cols)
        IN  Returns(SquareOptions(cols, "symmetric-outward", FALSE), sl, Placed(sl))

LayoutClusteredFill ==
    \E cols \in Columns :
        LET sl == ClusteredFillSlots(components, cols)
        IN  Returns(SquareOptions(cols, "clustered-fill", FALSE), sl, Placed(sl))

\* scale.x = isReversedRow ? -1 : 1 for items that have a scale
LayoutBoustrophedon ==
    \E cols \in Columns :
        LET sl == BoustrophedonSlots(NumItems, cols)
            flipped == [i \in 1..NumItems |->
                           [Placed(sl)[i] EXCEPT !.scaleX =
                               IF ~components[i].hasScale THEN @
                               ELSE IF sl[i].r % 2 # 0 THEN -1 ELSE 1]]
        IN  Returns(SquareOptions(cols, "boustrophedon", FALSE), sl, flipped)

LayoutBraidFlow ==
    \E cols \in Columns :
        LET sl == BraidFlowSlots(NumItems, cols)
        IN  Returns(SquareOptions(cols, "braid-flow", FALSE), sl, Placed(sl))

LayoutInterlaced ==
    \E cols \in Columns :
        LET sl == InterlacedSlots(NumItems, cols)
        IN  Returns(SquareOptions(cols, "interlaced-fill", FALSE), sl, Placed(sl))

LayoutRandomWalk ==
    \E cols \in Columns :
        \E sl \in RandomWalkOutcomes(NumItems, cols) :
            Returns(SquareOptions(cols, "random-walk", FALSE), sl, Placed(sl))

LayoutHilbertCurve ==
    \E cols \in Columns :
        LET sl == HilbertSlots(NumItems, cols)
        IN  Returns(SquareOptions(cols, "hilbert-curve", FALSE), sl, Placed(sl))

LayoutPerimeterFirst ==
    \E cols \in Columns :
        LET sl == PerimeterFirstSlots(NumItems, cols)
        IN  Returns(SquareOptions(cols, "perimeter-first", FALSE), sl, Placed(sl))

LayoutZOrder ==
    \E cols \in Columns :
        LET sl == ZOrderSlots(NumItems, cols)
        IN  Returns(SquareOptions(cols, "z-order", FALSE), sl, Placed(sl))

LayoutSpiral ==
    \E cols \in Columns, flow \in {"spiral-out", "spiral-in"} :
        LET sl == SpiralSlots(NumItems, cols, flow)
        IN  Returns(SquareOptions(cols, flow, FALSE), sl, Placed(sl))

LayoutDiagonalFill ==
    \E cols \in Columns :
        LET sl == DiagonalFillSlots(NumItems, cols)
        IN  Returns(SquareOptions(cols, "diagonal-fill", FALSE), sl, Placed(sl))

LayoutBlockFill ==
    \E cols \in Columns :
        LET sl == BlockFillSlots(NumItems, cols)
        IN  Returns(SquareOptions(cols, "block-fill", FALSE), sl, Placed(sl))

LayoutCornerConverge ==
    \E cols \in Columns :
        LET sl == CornerConvergeSlots(NumItems, cols)
        IN  Returns(SquareOptions(cols, "corner-converge", FALSE), sl, Placed(sl))

LayoutDiamondFill ==
    \E cols \in Columns :
        LET sl == DiamondFillSlots(NumItems, cols)
        IN  Returns(SquareOptions(cols, "diamond-fill", FALSE), sl,
                    DiamondHide(Placed(sl), sl))

\* The containers the calls start from.  Items are fresh (position (0, 0),
\* visible, unflipped) or as earlier layout calls and the application left
\* them (spread along a line, hidden, flipped); they expose `visible` and
\* `scale` (display objects) or not (bare LayoutComponents); their `group`
\* follows one of three patterns.
GroupPattern(k, i) ==
    CASE k = 1 -> "__default__"
      [] k = 2 -> IF i % 2 = 1 THEN "__default__" ELSE "a"
      [] OTHER -> IF i = 1 THEN "a" ELSE "__default__"

LeftBehind(item, i) ==
    [item EXCEPT !.x = -(2 * i * ItemWidth), !.y = -ItemHeight,
                 !.visible = ~item.hasVisible,
                 !.scaleX = IF item.hasScale THEN -1 ELSE 1]

ItemTemplates ==
    { [exposes |-> TRUE, groups |-> 1, fresh |-> TRUE],
      [exposes |-> TRUE, groups |-> 2, fresh |-> FALSE],
      [exposes |-> FALSE, groups |-> 3, fresh |-> TRUE],
      [exposes |-> FALSE, groups |-> 1, fresh |-> FALSE] }

SquareItemLists ==
    { [i \in 1..n |->
          LET item == NewItem(1, 1, t.exposes, t.exposes, GroupPattern(t.groups, i))
          IN  IF t.fresh THEN item ELSE LeftBehind(item, i)] :
        n \in 1..MaxN, t \in ItemTemplates }

Init ==
    /\ components \in SquareItemLists
    /\ options = SquareOptions(1, "default", FALSE)
    /\ slots = [i \in 1..Len(components) |-> NoSlot]
    /\ bounds = ZeroBounds
    /\ occupancyGrid = << >>
    /\ placedItems = << >>
    /\ maxRowUsed = 0
    /\ searchRow = 0
    /\ childIdx = 1
    /\ pc = "idle"
    /\ calls = 0
    /\ budgets = << >>
    /\ caps = << >>

Next ==
    \/ LayoutSimple
    \/ LayoutGravityFill
    \/ LayoutSymmetricOutward
    \/ LayoutClusteredFill
    \/ LayoutBoustrophedon
    \/ LayoutBraidFlow
    \/ LayoutInterlaced
    \/ LayoutRandomWalk
    \/ LayoutHilbertCurve
    \/ LayoutPerimeterFirst
    \/ LayoutZOrder
    \/ LayoutSpiral
    \/ LayoutDiagonalFill
    \/ LayoutBlockFill
    \/ LayoutCornerConverge
    \/ LayoutDiamondFill

Spec == Init /\ [][Next]_vars

----------------------------------------------------------------------------
(* _calculateBoundsFromComponents: every component counts, placed or not *)

SetOfMin(S) == CHOOSE m \in S : \A n \in S : m <= n
SetOfMax(S) == CHOOSE m \in S : \A n \in S : m >= n

calculateBoundsFromComponents(comps) ==
    IF Len(comps) = 0 THEN ZeroBounds
    ELSE [minX |-> SetOfMin({ comps[i].x - ItemWidth : i \in 1..Len(comps) }),
          minY |-> SetOfMin({ comps[i].y - ItemHeight : i \in 1..Len(comps) }),
          maxX |-> SetOfMax({ comps[i].x + ItemWidth : i \in 1..Len(comps) }),
          maxY |-> SetOfMax({ comps[i].y + ItemHeight : i \in 1..Len(comps) })]

----------------------------------------------------------------------------
(* _layoutPerimeterGrid, budgeting revision *)

Edges == {"top", "right", "bottom", "left"}
edgeNames == << "top", "right", "bottom", "left" >>

\* effectiveRows (step 1)
EffectiveRows(o, N) ==
    LET hSlots == IF o.excludeCorners THEN Max(0, o.columns - 2) * 2
                  ELSE o.columns * 2
        remaining == Max(0, N - hSlots)
        rows == IF o.autoRows THEN CeilDiv(remaining, 2) + 2 ELSE o.rows
    IN  Max(IF o.excludeCorners THEN 2 ELSE 1, rows)

\* caps (step 2, first half)
Caps(o, N) ==
    LET rows == EffectiveRows(o, N)
        x == IF o.excludeCorners THEN 2 ELSE 0
    IN  IF o.priorityDirection = "rows"
        THEN [left |-> Max(0, rows - x), right |-> Max(0, rows - x),
              top |-> Max(0, o.columns - 2), bottom |-> Max(0, o.columns - 2)]
        ELSE [top |-> Max(0, o.columns - x), bottom |-> Max(0, o.columns - x),
              left |-> Max(0, rows - 2), right |-> Max(0, rows - 2)]

Primary(o) == IF o.priorityDirection = "rows" THEN << "left", "right" >>
              ELSE << "top", "bottom" >>
Secondary(o) == IF o.priorityDirection = "rows" THEN << "top", "bottom" >>
                ELSE << "left", "right" >>

\* keys.forEach(k => { take = min(caps[k], remaining); budgets[k] = take;
\*                     remaining -= take })   for a pair of keys
FillInOrder(cp, keys, remaining) ==
    LET first == Min(cp[keys[1]], remaining)
        second == Min(cp[keys[2]], remaining - first)
    IN  (keys[1] :> first) @@ (keys[2] :> second)

\* pool.forEach(k => { budgets[k] = min(caps[k], perEdge + (extra > 0 ? 1 : 0));
\*                     if (extra > 0) extra-- })   for a pool of two keys
SplitEvenly(cp, keys, remaining) ==
    LET perEdge == remaining \div 2
        extra == remaining % 2
    IN  (keys[1] :> Min(cp[keys[1]], perEdge + (IF extra > 0 THEN 1 ELSE 0)))
        @@ (keys[2] :> Min(cp[keys[2]], perEdge))

\* A plausible slip: the priority edges are filled to capacity even when
\* fewer items than their combined capacity exist.
BudgetsAlwaysFillPrimary(o, N) ==
    LET cp == Caps(o, N)
        pr == Primary(o)
        se == Secondary(o)
    IN  (pr[1] :> cp[pr[1]]) @@ (pr[2] :> cp[pr[2]])
        @@ FillInOrder(cp, se, Max(0, N - cp[pr[1]] - cp[pr[2]]))

\* A plausible slip: the edges are filled in loop order (top, right, bottom,
\* left) instead of priority edges first.
BudgetsInLoopOrder(o, N) ==
    LET cp == Caps(o, N)
        top == Min(cp.top, N)
        right == Min(cp.right, N - top)
        bottom == Min(cp.bottom, N - top - right)
        left == Min(cp.left, N - top - right - bottom)
    IN  [top |-> top, right |-> right, bottom |-> bottom, left |-> left]

\* budgets (step 2, second half).  The two secondary capacities are equal,
\* so the pool of secondary edges with caps > 0 is both of them or empty.
Budgets(o, N) ==
    LET cp == Caps(o, N)
        pr == Primary(o)
        se == Secondary(o)
        totalPrimaryCap == cp[pr[1]] + cp[pr[2]]
        rest == N - totalPrimaryCap
        poolEmpty == cp[se[1]] <= 0 /\ cp[se[2]] <= 0
    IN  IF N >= totalPrimaryCap
        THEN (pr[1] :> cp[pr[1]]) @@ (pr[2] :> cp[pr[2]])
             @@ (IF o.equalDistribution /\ ~poolEmpty
                 THEN SplitEvenly(cp, se, rest)
                 ELSE FillInOrder(cp, se, rest))
        ELSE (se[1] :> 0) @@ (se[2] :> 0)
             @@ (IF o.equalDistribution
                 THEN SplitEvenly(cp, pr, N)
                 ELSE FillInOrder(cp, pr, N))

\* the clockwise loop (step 3) with edge ownership by priority direction
Loop(o, N) ==
    LET maxC == o.columns - 1
        maxR == EffectiveRows(o, N) - 1
        Own(slot) == IF o.priorityDirection # "rows" THEN slot
                     ELSE IF slot.c = maxC THEN [slot EXCEPT !.edge = "right"]
                     ELSE IF slot.c = 0 THEN [slot EXCEPT !.edge = "left"]
                     ELSE slot
        top == [k \in 1..(maxC + 1) |->
                   [r |-> 0, c |-> k - 1, edge |-> "top",
                    isCorner |-> (k - 1 = 0 \/ k - 1 = maxC)]]
        right == [k \in 1..Max(0, maxR - 1) |->
                   [r |-> k, c |-> maxC, edge |-> "right", isCorner |-> FALSE]]
        bottom == [k \in 1..(maxC + 1) |->
                   [r |-> maxR, c |-> maxC - (k - 1), edge |-> "bottom",
                    isCorner |-> (maxC - (k - 1) = 0 \/ maxC - (k - 1) = maxC)]]
        left == [k \in 1..Max(0, maxR - 1) |->
                   [r |-> maxR - k, c |-> 0, edge |-> "left", isCorner |-> FALSE]]
        all == top \o right \o bottom \o left
    IN  [k \in 1..Len(all) |-> Own(all[k])]

\* Math.round(a / b) for a >= 0, b > 0 is RoundDiv(a, b)

\* A plausible slip: 'justify-corners' divides by budget instead of
\* budget - 1, so the last pick stops short of the far end.
ActiveIndicesDividingByBudget(alignment, count, budget) ==
    IF alignment = "justify-corners" /\ count > 1 /\ budget > 1
    THEN { RoundDiv(i * (count - 1), budget) : i \in 0..(budget - 1) }
    ELSE IF alignment = "center"
    THEN LET start == FloorQ(count - budget, 2)
         IN  start..(start + budget - 1)
    ELSE IF alignment = "end"
    THEN (count - budget)..(count - 1)
    ELSE 0..(budget - 1)

\* the zero-based indices, into an edge's `count` eligible slots, that the
\* alignment policy adds for a budget > 0 (step 4, the four branches)
ActiveIndices(alignment, count, budget) ==
    IF alignment = "justify-corners" /\ count > 1 /\ budget > 1
    THEN { RoundDiv(i * (count - 1), budget - 1) : i \in 0..(budget - 1) }
    ELSE IF alignment = "center"
    THEN LET start == FloorQ(count - budget, 2)
         IN  start..(start + budget - 1)
    ELSE IF alignment = "end"
    THEN (count - budget)..(count - 1)
    ELSE 0..(budget - 1)

\* the indices (into the loop) of the slots an edge activates (step 4);
\* an index outside the edge's slot array reads undefined and activates nothing
EdgeActive(loop, budget, o, name) ==
    LET OnEdge(k) == loop[k].edge = name /\ (o.excludeCorners => ~loop[k].isCorner)
        slotIdx == SelectSeq([k \in 1..Len(loop) |-> k], OnEdge)
        count == Len(slotIdx)
        picks == ActiveIndices(o.overflowAlignment, count, budget)
    IN  IF budget <= 0 \/ count = 0 THEN {}
        ELSE { slotIdx[i + 1] : i \in picks \cap (0..(count - 1)) }

ActiveSlots(o, N) ==
    LET loop == Loop(o, N)
        bud == Budgets(o, N)
    IN  UNION { EdgeActive(loop, bud[name], o, name) : name \in Edges }

\* A plausible slip: counter-clockwise reverses the whole rotated loop, so
\* the traversal no longer starts at the requested corner.
PathIdxReversedWhole(loop, o, N) ==
    LET maxC == o.columns - 1
        maxR == EffectiveRows(o, N) - 1
        IsStart(k) ==
            CASE o.startCorner = "top-left" -> loop[k].r = 0 /\ loop[k].c = 0
              [] o.startCorner = "top-right" -> loop[k].r = 0 /\ loop[k].c = maxC
              [] o.startCorner = "bottom-right" -> loop[k].r = maxR /\ loop[k].c = maxC
              [] OTHER -> loop[k].r = maxR /\ loop[k].c = 0
        startIdx == SetOfMin({ k \in 1..Len(loop) : IsStart(k) })
        rotated == [k \in 1..Len(loop) |-> ((startIdx - 1 + k - 1) % Len(loop)) + 1]
    IN  IF o.direction = "counter-clockwise" THEN Reverse(rotated) ELSE rotated

\* the reoriented loop, as indices into the loop (step 5)
PathIdx(loop, o, N) ==
    LET maxC == o.columns - 1
        maxR == EffectiveRows(o, N) - 1
        IsStart(k) ==
            CASE o.startCorner = "top-left" -> loop[k].r = 0 /\ loop[k].c = 0
              [] o.startCorner = "top-right" -> loop[k].r = 0 /\ loop[k].c = maxC
              [] o.startCorner = "bottom-right" -> loop[k].r = maxR /\ loop[k].c = maxC
              [] OTHER -> loop[k].r = maxR /\ loop[k].c = 0
        startIdx == SetOfMin({ k \in 1..Len(loop) : IsStart(k) })
        rotated == [k \in 1..Len(loop) |-> ((startIdx - 1 + k - 1) % Len(loop)) + 1]
    IN  IF o.direction = "counter-clockwise"
        THEN << rotated[1] >> \o Reverse(SubSeq(rotated, 2, Len(rotated)))
        ELSE rotated

\* finalPath = path.filter(s => activeSlots.has(s))
FinalPath(o, N) ==
    LET loop == Loop(o, N)
        active == ActiveSlots(o, N)
        kept == SelectSeq(PathIdx(loop, o, N), LAMBDA k : k \in active)
    IN  [i \in 1..Len(kept) |-> loop[kept[i]]]

PerimeterSlots(o, N) ==
    LET finalPath == FinalPath(o, N)
    IN  [i \in 1..N |-> IF i <= Len(finalPath)
                        THEN Slot(finalPath[i].r, finalPath[i].c) ELSE NoSlot]

\* step 6 with cornerOffset = 0, offset = 0, globalRotation = 0 and
\* perspectiveY = 1: position = (x - gridWidth / 2, y - gridHeight / 2)
PerimeterPlaced(comps, o, sl) ==
    LET m == calculateGridCellSize(comps)
        maxC == o.columns - 1
        maxR == EffectiveRows(o, Len(comps)) - 1
    IN  [i \in 1..Len(comps) |->
            IF sl[i].placed
            THEN [comps[i] EXCEPT !.x = 2 * sl[i].c * m.cellWidth - maxC * m.cellWidth,
                                  !.y = 2 * sl[i].r * m.cellHeight - maxR * m.cellHeight]
            ELSE comps[i]]

PerimeterOptions ==
    [columns : Columns, rows : 1..MaxRows, autoRows : BOOLEAN,
     excludeCorners : BOOLEAN, priorityDirection : {"rows", "columns"},
     overflowAlignment : {"start", "center", "end", "justify-corners"},
     equalDistribution : BOOLEAN,
     startCorner : {"top-left", "top-right", "bottom-right", "bottom-left"},
     direction : {"clockwise", "counter-clockwise"}]

DefaultPerimeterOptions(cols) ==
    [columns |-> cols, rows |-> 3, autoRows |-> FALSE, excludeCorners |-> FALSE,
     priorityDirection |-> "columns", overflowAlignment |-> "start",
     equalDistribution |-> FALSE, startCorner |-> "top-left",
     direction |-> "clockwise"]

PerimIdle == pc = "idle"

\* numComponents === 0 || columns <= 0: return the zero box, touch nothing
LayoutPerimeterGridNoColumns ==
    /\ PerimIdle
    /\ options.columns <= 0
    /\ bounds' = ZeroBounds
    /\ slots' = [i \in 1..NumItems |-> NoSlot]
    /\ pc' = "returned"
    /\ UNCHANGED << components, options, calls, spanVars, perimVars >>

LayoutPerimeterGrid ==
    /\ PerimIdle
    /\ options.columns > 0
    /\ LET sl == PerimeterSlots(options, NumItems)
           comps == PerimeterPlaced(components, options, sl)
       IN  /\ caps' = Caps(options, NumItems)
           /\ budgets' = Budgets(options, NumItems)
           /\ slots' = sl
           /\ components' = comps
           /\ bounds' = calculateBoundsFromComponents(comps)
    /\ pc' = "returned"
    /\ UNCHANGED << options, calls, spanVars >>

\* The container and the options record the perimeter grid is applied with.
\* Items are fresh bare components, or display objects as an earlier layout
\* left them: spread along a line, flipped, and still visible.
PerimeterItemLists ==
    { [i \in 1..n |->
          LET item == NewItem(1, 1, e, e, "__default__")
          IN  IF e THEN [LeftBehind(item, i) EXCEPT !.visible = TRUE] ELSE item] :
        n \in 1..MaxN, e \in BOOLEAN }

InitPerimeter ==
    /\ components \in PerimeterItemLists
    /\ options \in PerimeterOptions
                   \cup { DefaultPerimeterOptions(cols) : cols \in {-1, 0} }
    /\ slots = [i \in 1..Len(components) |-> NoSlot]
    /\ bounds = ZeroBounds
    /\ occupancyGrid = << >>
    /\ placedItems = << >>
    /\ maxRowUsed = 0
    /\ searchRow = 0
    /\ childIdx = 1
    /\ pc = "idle"
    /\ calls = 0
    /\ budgets = [e \in Edges |-> 0]
    /\ caps = [e \in Edges |-> 0]

NextPerimeter == LayoutPerimeterGrid \/ LayoutPerimeterGridNoColumns

SpecPerimeter == InitPerimeter /\ [][NextPerimeter]_vars

----------------------------------------------------------------------------
\* _layoutPerimeterGrid, the corner-priority revision (src/src/layouts.ts):
\* no budgets; the whole loop is the slot list, the four corners can be
\* reserved for the first four items, and the rest is spread 'even' or
\* 'packed'.  cornerSortBy = null, enableZIndex = false, cornerOffset = 0,
\* offset = 0, globalRotation = 0, perspectiveY = 1.

Cell(r, c) == [r |-> r, c |-> c]

effectiveRows(o, N) ==
    IF ~o.autoRows THEN o.rows
    ELSE IF o.excludeCorners
         THEN Max(2, CeilQ(N - 2 * Max(2, o.columns) + 8, 2))
         ELSE IF o.columns = 1 THEN N
              ELSE IF N <= o.columns THEN 1
                   ELSE Max(2, CeilQ(N - 2 * o.columns + 4, 2))

\* Array.from({ length: n }, f): empty for n <= 0
topPath(cols, rows) == [i \in 1..Max(0, cols) |-> Cell(0, i - 1)]
rightPath(cols, rows) == [i \in 1..Max(0, rows - 1) |-> Cell(i, cols - 1)]
bottomPath(cols, rows) == [i \in 1..Max(0, cols - 1) |-> Cell(rows - 1, cols - 1 - i)]
leftPath(cols, rows) == [i \in 1..Max(0, rows - 2) |-> Cell(rows - 1 - i, 0)]

IsCornerCell(s, cols, rows) ==
    /\ s.r \in {0, rows - 1}
    /\ s.c \in {0, cols - 1}

\* the four edges joined, the last slot popped when it repeats the first,
\* corners filtered out under excludeCorners
canonicalPath(o, N) ==
    LET rows == effectiveRows(o, N)
        cols == o.columns
        joined == topPath(cols, rows) \o rightPath(cols, rows)
                    \o bottomPath(cols, rows) \o leftPath(cols, rows)
        popped == IF Len(joined) > 1 /\ joined[1] = joined[Len(joined)]
                  THEN SubSeq(joined, 1, Len(joined) - 1) ELSE joined
    IN  IF o.excludeCorners
        THEN SelectSeq(popped, LAMBDA s : ~IsCornerCell(s, cols, rows))
        ELSE popped

startCell(o, N) ==
    LET maxR == effectiveRows(o, N) - 1
        maxC == o.columns - 1
    IN  CASE o.startCorner = "top-right" -> Cell(0, maxC)
          [] o.startCorner = "bottom-right" -> Cell(maxR, maxC)
          [] o.startCorner = "bottom-left" -> Cell(maxR, 0)
          [] OTHER -> Cell(0, 0)

\* Array.prototype.findIndex for a cell: zero-based, -1 when absent
findIndex(path, s) ==
    LET hits == { k \in 1..Len(path) : path[k] = s }
    IN  IF hits = {} THEN -1 ELSE SetOfMin(hits) - 1

\* startIndex = Math.max(0, findIndex(...)), zero-based; 'top-left' never
\* searches
startIndex(o, N) ==
    IF o.startCorner = "top-left" THEN 0
    ELSE Max(0, findIndex(canonicalPath(o, N), startCell(o, N)))

\* [...path.slice(k), ...path.slice(0, k)], then under 'counter-clockwise'
\* [first, ...rest.reverse()]
reorient(path, k, direction) ==
    LET rotated == SubSeq(path, k + 1, Len(path)) \o SubSeq(path, 1, k)
    IN  IF direction = "counter-clockwise" /\ Len(rotated) > 0
        THEN << rotated[1] >> \o Reverse(SubSeq(rotated, 2, Len(rotated)))
        ELSE rotated

perimeterSlots(o, N) ==
    reorient(canonicalPath(o, N), startIndex(o, N), o.direction)

ReservesCorners(o, N) ==
    /\ ~o.excludeCorners
    /\ o.prioritizeCorners
    /\ o.columns > 1
    /\ effectiveRows(o, N) > 1

cornerSlots(o, N) ==
    LET maxR == effectiveRows(o, N) - 1
        maxC == o.columns - 1
        all == << Cell(0, 0), Cell(0, maxC), Cell(maxR, maxC), Cell(maxR, 0) >>
    IN  IF ReservesCorners(o, N) THEN SubSeq(all, 1, Min(4, N)) ELSE << >>

\* usedSlotSet holds "r,c" keys, so every loop slot on a reserved cell goes
slotsForDistribution(o, N) ==
    LET used == { cornerSlots(o, N)[k] : k \in 1..Len(cornerSlots(o, N)) }
    IN  SelectSeq(perimeterSlots(o, N), LAMBDA s : s \notin used)

\* the slot of every component: corners first, then slotIndex = i for
\* 'packed' and floor(i * (slots / components)) for 'even', i zero-based
\* among the components left for distribution
slotIndex(distribution, i, numRemainingSlots, numRemainingComponents) ==
    IF distribution = "packed" THEN i
    ELSE (i * numRemainingSlots) \div numRemainingComponents

distribute(corners, free, distribution, N) ==
    [i \in 1..N |->
        IF i <= Len(corners) THEN Slot(corners[i].r, corners[i].c)
        ELSE LET k == slotIndex(distribution, i - Len(corners) - 1,
                                Len(free), N - Len(corners))
             IN  IF k < Len(free) THEN Slot(free[k + 1].r, free[k + 1].c)
                 ELSE NoSlot]

CornerGridSlots(o, N) ==
    distribute(cornerSlots(o, N), slotsForDistribution(o, N), o.distribution, N)

\* placeChild: x = c * cellWidth + maxChildWidth / 2 - centerX with
\* centerX = gridWidth / 2 - maxChildWidth / 2 = (columns - 1) * cellWidth / 2
placeChild(comps, o, sl) ==
    LET m == calculateGridCellSize(comps)
        maxC == o.columns - 1
        maxR == effectiveRows(o, Len(comps)) - 1
    IN  [i \in 1..Len(comps) |->
            IF sl[i].placed
            THEN [comps[i] EXCEPT
                    !.x = 2 * sl[i].c * m.cellWidth - maxC * m.cellWidth + m.maxChildWidth,
                    !.y = 2 * sl[i].r * m.cellHeight - maxR * m.cellHeight + m.maxChildHeight]
            ELSE comps[i]]

\* the three early returns of the zero box
CornerGridEmpty(o, N) ==
    \/ o.columns <= 0
    \/ effectiveRows(o, N) <= 0
    \/ Len(canonicalPath(o, N)) = 0

LayoutCornerGridEmpty ==
    /\ pc = "idle"
    /\ CornerGridEmpty(options, NumItems)
    /\ bounds' = ZeroBounds
    /\ slots' = [i \in 1..NumItems |-> NoSlot]
    /\ pc' = "returned"
    /\ UNCHANGED << components, options, calls, spanVars, perimVars >>

LayoutCornerGrid ==
    /\ pc = "idle"
    /\ ~CornerGridEmpty(options, NumItems)
    /\ \E sl \in { CornerGridSlots(options, NumItems) } :
       \E comps \in { placeChild(components, options, sl) } :
           /\ slots' = sl
           /\ components' = comps
           /\ bounds' = calculateBoundsFromComponents(comps)
    /\ pc' = "returned"
    /\ UNCHANGED << options, calls, spanVars, perimVars >>

CornerGridOptions ==
    [columns : {0} \cup Columns, rows : 1..MaxRows, autoRows : BOOLEAN,
     excludeCorners : BOOLEAN, prioritizeCorners : BOOLEAN,
     distribution : {"even", "packed"},
     startCorner : {"top-left", "top-right", "bottom-right", "bottom-left"},
     direction : {"clockwise", "counter-clockwise"}]

InitCornerGrid ==
    /\ components \in PerimeterItemLists
    /\ options \in CornerGridOptions
    /\ slots = [i \in 1..Len(components) |-> NoSlot]
    /\ bounds = ZeroBounds
    /\ occupancyGrid = << >>
    /\ placedItems = << >>
    /\ maxRowUsed = 0
    /\ searchRow = 0
    /\ childIdx = 1
    /\ pc = "idle"
    /\ calls = 0
    /\ budgets = [e \in Edges |-> 0]
    /\ caps = [e \in Edges |-> 0]

NextCornerGrid == LayoutCornerGrid \/ LayoutCornerGridEmpty

SpecCornerGrid == InitCornerGrid /\ [][NextCornerGrid]_vars

----------------------------------------------------------------------------
(* Properties of the spanning placer *)

BlockCells(p) ==
    { << r, c >> : r \in p.row..(p.row + p.rowSpan - 1),
                   c \in p.col..(p.col + p.colSpan - 1) }

\* C1: after each placement the blocks row..row+rowSpan-1 x col..col+colSpan-1
\* of any two different placed items share no grid cell.
C1_NoOverlap ==
    \A i, j \in 1..Len(placedItems) :
        i < j => BlockCells(placedItems[i]) \cap BlockCells(placedItems[j]) = {}

\* C1 witness: three items are placed and one of them spans more than one cell.
C1_Witness ==
    /\ Len(placedItems) >= 3
    /\ \E i \in 1..Len(placedItems) :
          placedItems[i].rowSpan * placedItems[i].colSpan > 1

\* C2: every placed block lies inside the occupancy grid: 0 <= col,
\* col + colSpan <= columns, 0 <= row, row + rowSpan <= maxRowUsed + 1.
C2_BlocksInBounds ==
    \A i \in 1..Len(placedItems) :
        LET p == placedItems[i]
        IN  /\ 0 <= p.col /\ p.col + p.colSpan <= options.columns
            /\ 0 <= p.row /\ p.row + p.rowSpan <= maxRowUsed + 1

----------------------------------------------------------------------------
(* Properties of the calls routed by _layoutSquare *)

\* C3: a call with columns <= 0 on a non-empty item list is a no-op: it
\* returns the zero bounding box and leaves every item's position as it was.
C3_NoColumnsIsNoOp ==
    [][(calls' = calls + 1 /\ options'.columns <= 0) =>
          /\ bounds' = ZeroBounds
          /\ \A i \in 1..NumItems :
                /\ components'[i].x = components[i].x
                /\ components'[i].y = components[i].y]_vars

----------------------------------------------------------------------------
(* Properties of the perimeter budgets *)

EdgeSum(f) == f["top"] + f["right"] + f["bottom"] + f["left"]

\* C4: after a perimeter call with columns >= 1 every edge budget is an
\* integer between 0 and the edge's capacity, and the four budgets sum to
\* min(N, sum of the four capacities).
C4_BudgetsWithinCaps ==
    (pc = "returned" /\ options.columns >= 1) =>
        /\ \A e \in Edges : budgets[e] \in 0..caps[e]
        /\ EdgeSum(budgets) = Min(NumItems, EdgeSum(caps))

\* C4 witness: an even split that reaches the secondary edges while items
\* are fewer than the perimeter's capacity.
C4_Witness ==
    /\ pc = "returned"
    /\ options.columns >= 2
    /\ options.equalDistribution
    /\ budgets[Secondary(options)[1]] >= 1
    /\ budgets[Secondary(options)[2]] >= 1
    /\ NumItems < EdgeSum(caps)

----------------------------------------------------------------------------
(* Properties of the traversal strategies *)

\* C5: the simple grid with flowDirection 'default', flowReverse false and
\* C > 0 columns puts item i (0-based) in row floor(i / C), column i mod C,
\* at that cell's centre.
C5_RowMajor ==
    (/\ pc = "returned"
     /\ options.flowDirection = "default"
     /\ ~options.flowReverse
     /\ options.columns > 0) =>
        \A i \in 1..NumItems :
            LET row == (i - 1) \div options.columns
                col == (i - 1) % options.columns
            IN  /\ slots[i] = Slot(row, col)
                /\ components[i].x = 2 * col * Metrics.cellWidth + Metrics.maxChildWidth
                /\ components[i].y = 2 * row * Metrics.cellHeight + Metrics.maxChildHeight

\* C5 witness: a default-flow call whose items fill one row and part of
\* the next.
C5_Witness ==
    /\ pc = "returned"
    /\ options.flowDirection = "default"
    /\ ~options.flowReverse
    /\ options.columns >= 2
    /\ NumItems > options.columns
    /\ NumItems % options.columns # 0

\* C6: after a call of any strategy with columns >= 1, every slot assigned
\* to an item has 0 <= row < ceil(N / columns) and 0 <= col < columns.
C6_SlotsInGrid ==
    (pc = "returned" /\ options.columns >= 1) =>
        \A i \in 1..NumItems :
            slots[i].placed =>
                /\ 0 <= slots[i].r /\ slots[i].r < TotalRows(NumItems, options.columns)
                /\ 0 <= slots[i].c /\ slots[i].c < options.columns

\* C6 witness: a braid-flow call that places some items and withholds the
\* slot of another.
C6_Witness ==
    /\ pc = "returned"
    /\ options.flowDirection = "braid-flow"
    /\ \E i \in 1..NumItems : slots[i].placed /\ slots[i].c >= 1
    /\ \E i \in 1..NumItems : ~slots[i].placed

\* C7: the Hilbert sequence d2xy(0..n*n-1) over the enclosing power-of-two
\* square is a permutation of its cells; at least N of them lie in the real
\* grid, and every item gets its own in-grid cell.
C7_HilbertPermutation ==
    (pc = "returned" /\ options.flowDirection = "hilbert-curve") =>
        LET cols == options.columns
            rows == TotalRows(NumItems, cols)
            n == EnclosingSquare(NumItems, cols)
            curve == allPositionsOnCurve(n)
            inGrid == { k \in 1..Len(curve) : curve[k].r < rows /\ curve[k].c < cols }
        IN  /\ n >= Max(cols, rows) /\ (n = 1 \/ n < 2 * Max(cols, rows))
            /\ Len(curve) = n * n
            /\ \A k \in 1..Len(curve) :
                  curve[k].r \in 0..(n - 1) /\ curve[k].c \in 0..(n - 1)
            /\ \A j, k \in 1..Len(curve) : j < k => curve[j] # curve[k]
            /\ Cardinality(inGrid) >= NumItems
            /\ \A i \in 1..NumItems :
                  /\ slots[i].placed
                  /\ slots[i].r \in 0..(rows - 1) /\ slots[i].c \in 0..(cols - 1)
            /\ \A i, j \in 1..NumItems : i < j => slots[i] # slots[j]

\* C7 witness: a Hilbert call on a 4 x 4 enclosing square whose real grid is
\* narrower than the square.
C7_Witness ==
    /\ pc = "returned"
    /\ options.flowDirection = "hilbert-curve"
    /\ EnclosingSquare(NumItems, options.columns) = 4
    /\ options.columns = 3
    /\ NumItems >= 4

\* the Morton code of a cell, the column bit below the row bit
RECURSIVE Morton(_, _)
Morton(r, c) ==
    IF r = 0 /\ c = 0 THEN 0
    ELSE (c % 2) + 2 * (r % 2) + 4 * Morton(r \div 2, c \div 2)

\* C8: the Z-order call gives every item its own in-grid cell, in
\* increasing Morton code (quadrants top-left, top-right, bottom-left,
\* bottom-right), skipping no in-grid cell of smaller code.
C8_ZOrderMorton ==
    (pc = "returned" /\ options.flowDirection = "z-order") =>
        LET cols == options.columns
            rows == TotalRows(NumItems, cols)
            cells == { << r, c >> : r \in 0..(rows - 1), c \in 0..(cols - 1) }
            Code(i) == Morton(slots[i].r, slots[i].c)
        IN  /\ \A i \in 1..NumItems :
                  /\ slots[i].placed
                  /\ << slots[i].r, slots[i].c >> \in cells
                  /\ Cardinality({ p \in cells : Morton(p[1], p[2]) < Code(i) }) = i - 1
            /\ \A i, j \in 1..NumItems : i < j => Code(i) < Code(j)

\* C8 witness: a Z-order call that passes through all four quadrants of a
\* 4 x 4 enclosing square, with out-of-grid cells among them.
C8_Witness ==
    /\ pc = "returned"
    /\ options.flowDirection = "z-order"
    /\ EnclosingSquare(NumItems, options.columns) = 4
    /\ options.columns = 3
    /\ NumItems >= 4

\* C9: for N = totalRows * columns the corner-converge shells visit every
\* cell of the grid exactly once, and every item receives a cell.
C9_CornerConvergeCoversAll ==
    (/\ pc = "returned"
     /\ options.flowDirection = "corner-converge"
     /\ NumItems = TotalRows(NumItems, options.columns) * options.columns) =>
        LET cols == options.columns
            rows == TotalRows(NumItems, cols)
            visits == CornerConvergePositions(NumItems, cols)
        IN  /\ \A r \in 0..(rows - 1), c \in 0..(cols - 1) :
                  Cardinality({ k \in 1..Len(visits) : visits[k] = Slot(r, c) }) = 1
            /\ \A i \in 1..NumItems : slots[i].placed

\* C10: a diamond-fill call puts item i on the i-th valid cell (the valid
\* cells in row-major order) and leaves it visible, for every i below the
\* number V of valid cells; every other item keeps its position and, when
\* it exposes `visible`, is hidden.
C10_DiamondFill ==
    [][(calls' = calls + 1 /\ options'.flowDirection = "diamond-fill") =>
          LET valid == validPositions(NumItems, options'.columns)
              m == Metrics
          IN  /\ \A j, k \in 1..Len(valid) :
                    j < k => \/ valid[j].r < valid[k].r
                             \/ valid[j].r = valid[k].r /\ valid[j].c < valid[k].c
              /\ \A i \in 1..NumItems :
                    IF i <= Len(valid)
                    THEN /\ slots'[i] = valid[i]
                         /\ components'[i].x = 2 * valid[i].c * m.cellWidth + m.maxChildWidth
                         /\ components'[i].y = 2 * valid[i].r * m.cellHeight + m.maxChildHeight
                         /\ components[i].hasVisible => components'[i].visible
                    ELSE /\ ~slots'[i].placed
                         /\ components'[i].x = components[i].x
                         /\ components'[i].y = components[i].y
                         /\ components[i].hasVisible => ~components'[i].visible]_vars

\* C10 witness: a diamond-fill call has placed some items and hidden one
\* that stays where it was left.
C10_Witness ==
    /\ pc = "returned"
    /\ options.flowDirection = "diamond-fill"
    /\ \E i \in 1..NumItems : slots[i].placed /\ components[i].visible
    /\ \E i \in 1..NumItems :
          /\ ~slots[i].placed
          /\ components[i].hasVisible
          /\ ~components[i].visible
          /\ components[i].x = -(2 * i * ItemWidth)
          /\ components[i].y = -ItemHeight

----------------------------------------------------------------------------
(* Properties of the perimeter grid *)

\* C11: a perimeter call leaves every item beyond the total budget at its
\* prior position and, when the item exposes `visible`, sets it to false.
C11_OverflowLeftHidden ==
    [][(pc = "idle" /\ pc' = "returned" /\ options.columns >= 1) =>
          \A i \in 1..NumItems :
              i > EdgeSum(budgets') =>
                  /\ ~slots'[i].placed
                  /\ components'[i].x = components[i].x
                  /\ components'[i].y = components[i].y
                  /\ components[i].hasVisible => ~components'[i].visible]_vars

----------------------------------------------------------------------------
(* First fit in the spanning placer *)

\* the cells covered by the blocks placed before the k-th
CoveredBefore(k) == UNION { BlockCells(placedItems[j]) : j \in 1..(k - 1) }

\* the block of the k-th placed item, moved to (r, c), meets no earlier block
FreeAt(k, r, c) ==
    BlockCells([placedItems[k] EXCEPT !.row = r, !.col = c])
        \cap CoveredBefore(k) = {}

\* the start columns at which the k-th block lies inside the grid's columns
StartColumns(k) == 0..(options.columns - placedItems[k].colSpan)

\* column a is scanned before column b in row r
ScannedBefore(r, a, b) ==
    IF options.flowDirection = "snake" /\ r % 2 # 0 THEN a > b ELSE a < b

\* C12: items are placed first-fit in input order: the k-th placed block is
\* the k-th item's, it sits in the smallest row that has a start column
\* holding an entirely free block of its size, and at the first such column
\* of that row in scan order.
C12_FirstFit ==
    \A k \in 1..Len(placedItems) :
        LET p == placedItems[k]
        IN  /\ p.rowSpan = components[k].rowSpan
            /\ p.colSpan = Min(components[k].colSpan, options.columns)
            /\ p.col \in StartColumns(k)
            /\ FreeAt(k, p.row, p.col)
            /\ \A r \in 0..(p.row - 1) : \A c \in StartColumns(k) : ~FreeAt(k, r, c)
            /\ \A c \in StartColumns(k) :
                  ScannedBefore(p.row, c, p.col) => ~FreeAt(k, p.row, c)

----------------------------------------------------------------------------
(* Properties of the perimeter grid's rows, loop and active slots *)

\* the boundary cells of the columns x rows rectangle
BoundaryCells(cols, rows) ==
    { << r, c >> \in (0..(rows - 1)) \X (0..(cols - 1)) :
        r = 0 \/ r = rows - 1 \/ c = 0 \/ c = cols - 1 }

\* C13: with autoRows and columns >= 1 the row count is large enough that
\* every item is placed, each on a perimeter cell of its own.
C13_AutoRowsPlacesAll ==
    (pc = "returned" /\ options.columns >= 1 /\ options.autoRows) =>
        /\ \A i \in 1..NumItems :
              /\ slots[i].placed
              /\ << slots[i].r, slots[i].c >> \in
                     BoundaryCells(options.columns, EffectiveRows(options, NumItems))
        /\ \A i, j \in 1..NumItems : i < j => slots[i] # slots[j]

CornerCells(cols, rows) ==
    << Cell(0, 0), Cell(0, cols - 1), Cell(rows - 1, cols - 1), Cell(rows - 1, 0) >>

SlotCell(s) == Cell(s.r, s.c)

\* the case C14 is about: at least four items on a grid with four distinct
\* corners that are not excluded
FourCornerCase(o, N, rows) ==
    /\ o.columns > 1
    /\ rows > 1
    /\ N >= 4
    /\ ~o.excludeCorners

\* C14: with corners not excluded, columns > 1, rows > 1 and at least four
\* items, a perimeter call puts the first four items on the top-left,
\* top-right, bottom-right and bottom-left cells in that order, and every
\* later item that is placed on a cell that is no corner.  The budgeting
\* revision reads no prioritizeCorners option, so each of its calls is also
\* a call with the option set.
C14_FirstFourAtCorners ==
    LET rows == EffectiveRows(options, NumItems)
    IN  (pc = "returned" /\ FourCornerCase(options, NumItems, rows)) =>
            /\ \A i \in 1..4 :
                   /\ slots[i].placed
                   /\ SlotCell(slots[i]) = CornerCells(options.columns, rows)[i]
            /\ \A i \in 5..NumItems :
                   slots[i].placed =>
                       ~IsCornerCell(SlotCell(slots[i]), options.columns, rows)

\* the same statement for the corner-priority revision, which reads the option
C14_CornerGridFirstFour ==
    LET rows == effectiveRows(options, NumItems)
    IN  (/\ pc = "returned"
         /\ FourCornerCase(options, NumItems, rows)
         /\ options.prioritizeCorners) =>
            /\ \A i \in 1..4 :
                   /\ slots[i].placed
                   /\ SlotCell(slots[i]) = CornerCells(options.columns, rows)[i]
            /\ \A i \in 5..NumItems :
                   slots[i].placed =>
                       ~IsCornerCell(SlotCell(slots[i]), options.columns, rows)

NumPlaced == Cardinality({ i \in 1..NumItems : slots[i].placed })

\* C15: after a perimeter call with columns >= 1 every edge has activated
\* exactly as many of its slots as its budget says, so the number of items
\* placed is min(N, total capacity of the four edges).
C15_ActivePerBudget ==
    (pc = "returned" /\ options.columns >= 1) =>
        /\ \A name \in Edges :
               Cardinality(EdgeActive(Loop(options, NumItems), budgets[name],
                                      options, name)) = budgets[name]
        /\ NumPlaced = Min(NumItems, EdgeSum(caps))

LoopCells(loop) == [k \in 1..Len(loop) |-> Cell(loop[k].r, loop[k].c)]

Injective(seq) == \A i, j \in 1..Len(seq) : i < j => seq[i] # seq[j]

\* C16: after a perimeter call with columns >= 1 the canonical loop lists
\* every boundary cell of the columns x rows rectangle exactly once, rows = 1
\* and columns = 1 included, and no two placed items share a cell.
C16_LoopCoversBoundaryOnce ==
    (pc = "returned" /\ options.columns >= 1) =>
        LET cells == LoopCells(Loop(options, NumItems))
        IN  /\ { cells[k] : k \in 1..Len(cells) } =
                   { Cell(rc[1], rc[2]) :
                       rc \in BoundaryCells(options.columns,
                                            EffectiveRows(options, NumItems)) }
            /\ Injective(cells)
            /\ \A i, j \in 1..NumItems :
                   (i < j /\ slots[i].placed /\ slots[j].placed) =>
                       slots[i] # slots[j]

\* the loop of the corner-priority revision, corners not excluded
C16_CanonicalPathOnce ==
    (pc = "returned" /\ options.columns >= 1 /\ ~options.excludeCorners) =>
        LET cells == canonicalPath(options, NumItems)
        IN  /\ { cells[k] : k \in 1..Len(cells) } =
                   { Cell(rc[1], rc[2]) :
                       rc \in BoundaryCells(options.columns,
                                            effectiveRows(options, NumItems)) }
            /\ Injective(cells)

PlacedItems == { i \in 1..NumItems : slots[i].placed }

\* C17: the box a perimeter call returns is the union of the boxes of the
\* items it placed (centre plus and minus half the width and height); the
\* position an unplaced item still has from earlier does not enter it.
C17_BoundsOfPlacedOnly ==
    (pc = "returned" /\ options.columns >= 1 /\ PlacedItems # {}) =>
        bounds = [minX |-> SetOfMin({ components[i].x - ItemWidth : i \in PlacedItems }),
                  minY |-> SetOfMin({ components[i].y - ItemHeight : i \in PlacedItems }),
                  maxX |-> SetOfMax({ components[i].x + ItemWidth : i \in PlacedItems }),
                  maxY |-> SetOfMax({ components[i].y + ItemHeight : i \in PlacedItems })]

\* C18: budgets are priority-first.  After a perimeter call with
\* columns >= 1 a secondary edge has a non-zero budget only when both
\* priority edges are filled to capacity, both secondary budgets are 0 when
\* N is below the combined priority capacity, and with excludeCorners no
\* item is placed on a corner cell.
C18_PriorityFirst ==
    (pc = "returned" /\ options.columns >= 1) =>
        LET pr == Primary(options)
            se == Secondary(options)
        IN  /\ (budgets[se[1]] > 0 \/ budgets[se[2]] > 0) =>
                   /\ budgets[pr[1]] = caps[pr[1]]
                   /\ budgets[pr[2]] = caps[pr[2]]
            /\ NumItems < caps[pr[1]] + caps[pr[2]] =>
                   /\ budgets[se[1]] = 0
                   /\ budgets[se[2]] = 0
            /\ options.excludeCorners =>
                   \A i \in PlacedItems :
                       ~IsCornerCell(SlotCell(slots[i]), options.columns,
                                     EffectiveRows(options, NumItems))

\* corners excluded, both priority edges hold items and are full, and a
\* secondary edge has received the overflow
C18_Witness ==
    /\ pc = "returned"
    /\ options.excludeCorners
    /\ budgets[Primary(options)[1]] > 0
    /\ budgets[Primary(options)[2]] > 0
    /\ budgets[Secondary(options)[1]] > 0
    /\ PlacedItems = 1..NumItems

\* the number of slots of the loop an edge may activate
EligibleCount(o, N, name) ==
    LET loop == Loop(o, N)
    IN  Cardinality({ k \in 1..Len(loop) :
                        /\ loop[k].edge = name
                        /\ o.excludeCorners => ~loop[k].isCorner })

\* C19: after a perimeter call, on every edge with budget b, 0 < b <= count
\* eligible slots, the selected indices are 0..b-1 for 'start',
\* count-b..count-1 for 'end', the b consecutive indices from
\* floor((count-b)/2) for 'center', and for 'justify-corners' with b >= 2 the
\* b pairwise distinct indices round(i*(count-1)/(b-1)), among them 0 and
\* count-1; 'justify-corners' with b = 1 selects index 0 like 'start'.  In
\* every case exactly b indices inside 0..count-1 are selected.
C19_AlignmentIndices ==
    (pc = "returned" /\ options.columns >= 1) =>
        \A name \in Edges :
            LET b == budgets[name]
                count == EligibleCount(options, NumItems, name)
                al == options.overflowAlignment
                picks == ActiveIndices(al, count, b)
            IN  (0 < b /\ b <= count) =>
                    /\ picks \subseteq 0..(count - 1)
                    /\ Cardinality(picks) = b
                    /\ al = "start" => picks = 0..(b - 1)
                    /\ al = "end" => picks = (count - b)..(count - 1)
                    /\ al = "center" =>
                           picks = { (count - b) \div 2 + i : i \in 0..(b - 1) }
                    /\ (al = "justify-corners" /\ b >= 2) =>
                           /\ 0 \in picks
                           /\ count - 1 \in picks
                           /\ picks = { (2 * i * (count - 1) + (b - 1)) \div (2 * (b - 1)) :
                                          i \in 0..(b - 1) }
                    /\ (al = "justify-corners" /\ b <= 1) => picks = 0..(b - 1)
                    /\ \A k \in EdgeActive(Loop(options, NumItems), b, options, name) :
                           Loop(options, NumItems)[k].edge = name

\* 'justify-corners' spreading two items over an edge of three slots
C19_Witness ==
    /\ pc = "returned"
    /\ options.overflowAlignment = "justify-corners"
    /\ \E name \in Edges :
           /\ budgets[name] = 2
           /\ EligibleCount(options, NumItems, name) = 3
           /\ Cardinality(EdgeActive(Loop(options, NumItems), 2, options, name)) = 2

IsRotation(seq, n) ==
    /\ Len(seq) = n
    /\ \E s \in 1..n : \A k \in 1..n : seq[k] = ((s - 1 + k - 1) % n) + 1

RequestedCorner(o, rows) ==
    CASE o.startCorner = "top-right" -> Cell(0, o.columns - 1)
      [] o.startCorner = "bottom-right" -> Cell(rows - 1, o.columns - 1)
      [] o.startCorner = "bottom-left" -> Cell(rows - 1, 0)
      [] OTHER -> Cell(0, 0)

C20_CornerGridReorientation ==
    (pc = "returned" /\ options.columns >= 1 /\ ~options.excludeCorners) =>
        LET canon == canonicalPath(options, NumItems)
            n == Len(canon)
            path == perimeterSlots(options, NumItems)
            rotated == perimeterSlots([options EXCEPT !.direction = "clockwise"],
                                      NumItems)
        IN  /\ Len(path) = n
            /\ \E s \in 1..n : \A k \in 1..n : rotated[k] = canon[((s - 1 + k - 1) % n) + 1]
            /\ path[1] = RequestedCorner(options, effectiveRows(options, NumItems))
            /\ options.direction = "clockwise" => path = rotated
            /\ options.direction = "counter-clockwise" =>
                   /\ path[1] = rotated[1]
                   /\ \A k \in 2..n : path[k] = rotated[n + 2 - k]

\* the items the distribution step handles, zero-based among themselves
RemainingItems(o, N) == 0..(N - Len(cornerSlots(o, N)) - 1)

\* C21: in the distribution step of a perimeter call every remaining item
\* gets a slot index below the number of remaining slots ('packed': its own
\* rank; 'even': floor(rank * slots / items)), and no two remaining items
\* get the same index.
C21_DistributionInjective ==
    (pc = "returned" /\ ~CornerGridEmpty(options, NumItems)) =>
        LET S == Len(slotsForDistribution(options, NumItems))
            rem == RemainingItems(options, NumItems)
            M == Cardinality(rem)
            idx(i) == slotIndex(options.distribution, i, S, M)
        IN  (M > 0 /\ S > 0) =>
                /\ \A i \in rem : idx(i) < S
                /\ \A i, j \in rem : i < j => idx(i) # idx(j)

IsGravityCall == pc = "returned" /\ options.flowDirection \in GravityFlows

GridCells(rows, cols) == { Cell(r, c) : r \in 0..(rows - 1), c \in 0..(cols - 1) }

Manhattan(a, b) == Abs(a.r - b.r) + Abs(a.c - b.c)

\* a comes before b in the order: distance to g, then row, then column
NearerTo(g, a, b) ==
    \/ Manhattan(a, g) < Manhattan(b, g)
    \/ Manhattan(a, g) = Manhattan(b, g) /\ a.r < b.r
    \/ Manhattan(a, g) = Manhattan(b, g) /\ a.r = b.r /\ a.c < b.c

\* item i holds the i-th cell of the grid sorted around g: all items are
\* placed in the grid, in strictly increasing order, no cell before the last
\* item's is left out, and the first item is on g itself
FilledAround(g) ==
    LET rows == TotalRows(NumItems, options.columns)
        taken == { SlotCell(slots[i]) : i \in 1..NumItems }
    IN  /\ \A i \in 1..NumItems : slots[i].placed
        /\ taken \subseteq GridCells(rows, options.columns)
        /\ SlotCell(slots[1]) = g
        /\ \A i \in 1..(NumItems - 1) :
               /\ NearerTo(g, SlotCell(slots[i]), SlotCell(slots[i + 1]))
               /\ Manhattan(SlotCell(slots[i]), g) <= Manhattan(SlotCell(slots[i + 1]), g)
        /\ \A q \in GridCells(rows, options.columns) \ taken :
               NearerTo(g, SlotCell(slots[NumItems]), q)

\* the nine anchors of the statement: the seven below plus the left and
\* right edge midpoints
NineAnchors(flow, rows, cols) ==
    CASE flow = "gravity-fill-top-left"     -> Cell(0, 0)
      [] flow = "gravity-fill-top-right"    -> Cell(0, cols - 1)
      [] flow = "gravity-fill-bottom-left"  -> Cell(rows - 1, 0)
      [] flow = "gravity-fill-bottom-right" -> Cell(rows - 1, cols - 1)
      [] flow = "gravity-fill-top"          -> Cell(0, cols \div 2)
      [] flow = "gravity-fill-bottom"       -> Cell(rows - 1, cols \div 2)
      [] flow = "gravity-fill-left"         -> Cell(rows \div 2, 0)
      [] flow = "gravity-fill-right"        -> Cell(rows \div 2, cols - 1)
      [] OTHER                              -> Cell(rows \div 2, cols \div 2)

\* seven anchors: '-left' and '-right' have none of their own and mean the
\* centre
SevenAnchors(flow, rows, cols) ==
    IF flow \in {"gravity-fill-left", "gravity-fill-right"}
    THEN Cell(rows \div 2, cols \div 2)
    ELSE NineAnchors(flow, rows, cols)

\* C22 as stated: after a gravity-fill call the items fill the grid in order
\* of Manhattan distance (ties by row, then column) around one of nine
\* anchors, the left and right edge midpoints among them, item 0 on the
\* anchor.
C22_NineAnchors ==
    IsGravityCall =>
        FilledAround(NineAnchors(options.flowDirection,
                                 TotalRows(NumItems, options.columns),
                                 options.columns))

\* C22 amended: the same around one of seven anchors (centre, four corners,
\* top and bottom edge midpoints); every other suffix, '-left' and '-right'
\* included, fills around the centre cell.
C22_SevenAnchors ==
    IsGravityCall =>
        FilledAround(SevenAnchors(options.flowDirection,
                                  TotalRows(NumItems, options.columns),
                                  options.columns))

\* a 'gravity-fill-left' call on two rows and two columns, which starts on
\* the centre cell (1, 1) and not on the left edge
C22_Witness ==
    /\ IsGravityCall
    /\ options.flowDirection = "gravity-fill-left"
    /\ options.columns = 2
    /\ NumItems = 3
    /\ slots[1] = Slot(1, 1)

IsRandomWalkCall == pc = "returned" /\ options.flowDirection = "random-walk"

Adjacent(a, b) == Manhattan(a, b) = 1

\* the cells next to item k's cell that are in the grid and that none of the
\* items 1..k holds
OpenNeighbours(k) ==
    { q \in GridCells(TotalRows(NumItems, options.columns), options.columns) :
        /\ Adjacent(q, SlotCell(slots[k]))
        /\ \A j \in 1..k : SlotCell(slots[j]) # q }

\* C23: whatever the random source returns, a random-walk call places all
\* items on pairwise distinct cells of the grid, item k + 1 goes to an open
\* neighbour of item k's cell whenever there is one, and so a step to a cell
\* that is not adjacent happens only at a dead end.
C23_RandomWalk ==
    IsRandomWalkCall =>
        /\ \A i \in 1..NumItems :
               /\ slots[i].placed
               /\ SlotCell(slots[i]) \in
                      GridCells(TotalRows(NumItems, options.columns), options.columns)
        /\ \A i, j \in 1..NumItems : i < j => slots[i] # slots[j]
        /\ \A k \in 1..(NumItems - 1) :
               /\ OpenNeighbours(k) # {} => SlotCell(slots[k + 1]) \in OpenNeighbours(k)
               /\ ~Adjacent(SlotCell(slots[k]), SlotCell(slots[k + 1])) =>
                      OpenNeighbours(k) = {}

\* a walk that ran into a dead end and jumped: three items in one row, the
\* second on an end cell next to the first, the third two cells away
C23_Witness ==
    /\ IsRandomWalkCall
    /\ NumItems = 3
    /\ Adjacent(SlotCell(slots[1]), SlotCell(slots[2]))
    /\ slots[3].placed
    /\ ~Adjacent(SlotCell(slots[2]), SlotCell(slots[3]))

\* the rows the occupancy grid held when the search for the current item
\* began: none before the first item, maxRowUsed + 1 afterwards
RowsAllocatedBefore == IF childIdx = 1 THEN 0 ELSE maxRowUsed + 1

\* C24: a spanning call with columns >= 1 and positive spans terminates;
\* on the way the search row of an item never passes the number of rows
\* allocated before its search began, it moves one row at a time, and after
\* each placement the occupancy grid holds no more than maxRowUsed + 1 rows.
C24_Terminates ==
    /\ <>(pc = "done")
    /\ [](pc = "search" => searchRow <= RowsAllocatedBefore)
    /\ [][(pc = "search" /\ childIdx' = childIdx) => searchRow' = searchRow + 1]_vars
    /\ []((placedItems # << >> /\ (pc # "search" \/ searchRow = 0)) =>
              Len(occupancyGrid) <= maxRowUsed + 1)

\* an item that found no room in row 0 has been placed in the first fresh
\* row, and the call has returned
C24_Witness ==
    /\ pc = "done"
    /\ Len(placedItems) >= 2
    /\ \E k \in 2..Len(placedItems) :
           /\ placedItems[k].row >= 1
           /\ placedItems[k].row =
                  SetOfMax({ placedItems[j].row + placedItems[j].rowSpan : j \in 1..(k - 1) })

AllUnitSpans == \A i \in 1..NumItems : components[i].colSpan = 1 /\ components[i].rowSpan = 1

\* C25: when every item is 1 x 1 the spanning placer, once returned, has
\* given item i the slot the simple grid gives it for the same columns and
\* flow (row floor(i / C), column i mod C, mirrored to C - 1 - (i mod C) on
\* odd rows under 'snake'), and returns the simple grid's bounding box.
C25_SpanningRefinesSimple ==
    (pc = "done" /\ AllUnitSpans) =>
        /\ \A i \in 1..NumItems :
               LET row == (i - 1) \div options.columns
                   col == (i - 1) % options.columns
                   mirrored == options.flowDirection = "snake" /\ row % 2 # 0
               IN  /\ slots[i] = Slot(row, IF mirrored THEN options.columns - 1 - col
                                           ELSE col)
                   /\ slots[i] = SimpleSlot(i - 1, NumItems, options.columns,
                                            options.flowDirection, FALSE)
        /\ bounds = GridBounds(options.columns,
                               TotalRows(NumItems, options.columns),
                               calculateGridCellSize(components))

\* a returned 'snake' call on 1 x 1 items with an item on an odd row, placed
\* from the right
C25_Witness ==
    /\ pc = "done"
    /\ AllUnitSpans
    /\ options.flowDirection = "snake"
    /\ options.columns >= 2
    /\ NumItems > options.columns
    /\ slots[options.columns + 1] = Slot(1, options.columns - 1)

\* C26: a spanning call with cornerOffset > 0 returns a box that contains
\* the box of every item (centre plus and minus half its width and height),
\* also of an item whose block touches two corners of the grid.
C26_OffsetBoundsContainItems ==
    (pc = "done" /\ CornerOffset(options) > 0) =>
        \A i \in 1..NumItems :
            /\ bounds.minX <= components[i].x - ItemWidth
            /\ components[i].x + ItemWidth <= bounds.maxX
            /\ bounds.minY <= components[i].y - ItemHeight
            /\ components[i].y + ItemHeight <= bounds.maxY

C28_BraidFlowPlacesAll ==
    (pc = "returned" /\ options.flowDirection = "braid-flow" /\ options.columns >= 1) =>
        \A i \in 1..NumItems : slots[i].placed


-----------------------------------------------------------------------------
(* Clustered fill: one column band per group *)

IsClusteredFillCall == pc = "returned" /\ options.flowDirection = "clustered-fill"

\* the bands of the call that has just returned, in the order the code lays
\* them out
Zones == ClusterZones(components, SortedGroups(components), 1, 0, options.columns)

BandColumns(zone) == zone.x .. (zone.x + zone.width - 1)

\* C29: after a clustered-fill call with columns >= 1, whatever the groups
\* are: the bands of different groups share no column, every band has at
\* least as many cells (width x totalRows) as its group has items, and every
\* item is assigned a cell whose column lies in the band of its own group.
C29_ClusteredBands ==
    (IsClusteredFillCall /\ options.columns >= 1) =>
        LET rows == TotalRows(NumItems, options.columns) IN
        /\ \A j, k \in 1..Len(Zones) :
               j # k => BandColumns(Zones[j]) \cap BandColumns(Zones[k]) = {}
        /\ \A k \in 1..Len(Zones) :
               Zones[k].width * rows >= Len(GroupMembers(components, Zones[k].group))
        /\ \A i \in 1..NumItems :
               /\ slots[i].placed
               /\ \E k \in 1..Len(Zones) :
                      /\ Zones[k].group = components[i].group
                      /\ slots[i].c \in BandColumns(Zones[k])
                      /\ slots[i].r \in 0..(rows - 1)


-----------------------------------------------------------------------------
(* No strategy stacks items *)

\* the traversals of _layoutSquare that follow a fixed order
IsDeterministicCall == pc = "returned" /\ options.flowDirection # "random-walk"

\* C30: after a call of any deterministic non-spanning strategy with
\* columns >= 1, two distinct items that were both assigned a cell were
\* assigned different (row, col) cells.
C30_NoStacking ==
    (IsDeterministicCall /\ options.columns >= 1) =>
        \A i, j \in 1..NumItems :
            (i # j /\ slots[i].placed /\ slots[j].placed) =>
                << slots[i].r, slots[i].c >> # << slots[j].r, slots[j].c >>


\* C30 witness: a corner-converge call on a single row of three, where the
\* legs from the left and from the right both run over the middle cell and
\* the three items still end on three cells.
C30_Witness ==
    /\ IsDeterministicCall
    /\ options.flowDirection = "corner-converge"
    /\ options.columns = 3
    /\ NumItems = 3
    /\ slots = << Slot(0, 0), Slot(0, 2), Slot(0, 1) >>


============================================================================
